---- MODULE Spec2Model ----
\* Position-fusion engine of gpsd-ng.py (classes Position and GPSD):
\* per-device Positions, arbitration, last-known position, elevation cache,
\* Wi-Fi positioning.
\*
\* Conventions of the model
\*   - time is an integer number of seconds (datetime.now(tz=UTC));
\*   - latitude/longitude are integers in units of 1e-5 degree, so that
\*     round(x, 4) is "nearest multiple of 10"; altitude, speed are integers;
\*   - float("NaN") is the value NaN and float("inf") the value Inf; Python's
\*     None is NoTime for a datetime and NoDevice for a device name;
\*   - the validity bitmask session.valid is the set of the names of its bits
\*     (flag & valid  is  flag \in valid);
\*   - the dict self.positions is the sequence of its values in insertion
\*     order (each Position carries its key in .device);
\*   - a reference to a Position object is [kind |-> "live", device |-> d]
\*     while the object is the one stored under key d of self.positions, and
\*     [kind |-> "detached", pos |-> p] once the object has been deleted from
\*     the dict (nothing mutates it any more).
EXTENDS Integers, Sequences, FiniteSets, TLC

VARIABLES
    now,               \* wall clock
    configured,        \* is_configured(): gpsdhost/gpsdport set
    main_device,       \* GPSD.main_device
    fix_timeout,       \* GPSD.fix_timeout
    update_timeout,    \* GPSD.update_timeout
    positions,         \* GPSD.positions
    last_position,     \* GPSD.last_position (a reference)
    last_clean,        \* GPSD.last_clean
    elevation_data,    \* GPSD.elevation_data
    last_elevation,    \* GPSD.last_elevation
    wifi_positions,    \* GPSD.wifi_positions
    done,              \* the operation that has just completed: its name,
                       \* its argument and its result
    wifi_positioning,  \* GPSD_ng.wifi_positioning
    worker,            \* where the thread of GPSD.run is
    session,           \* GPSD.session is a gps.gps session (not None)
    connection_errors, \* connection_errors of GPSD.loop
    exit,              \* GPSD.exit is set
    last_hook,         \* GPSD.last_hook
    lost_position_sent,\* GPSD.lost_position_sent
    emitted,           \* what plugins.on has been called with so far
    held,              \* the Position a caller of get_position holds, and
                       \* its fields when it was returned
    raw,               \* the buffer of the session: session.valid,
                       \* session.device, session.fix, session.satellites
    lock,              \* the thread that holds GPSD.lock, or "free"
    frames,            \* per thread, the calls in progress: what is left to
                       \* execute of each, the innermost first
    at,                \* where the thread of GPSD.run is in run and loop
    requests,          \* the times at which a request was sent to the
                       \* elevation service, oldest first
    ntrip,             \* the Ntrip plugin: ready, last_update, gpsd_pid,
                       \* current_url, and whether its position is set
    daemon             \* gpsd: its pid and the NTRIP URLs registered with it

\* The plugin's option, the worker thread, the event hook and the caller.
\* The session's buffer and the statement-level view of the threads.
steps == <<raw, lock, frames, at>>

\* What the plugins have asked of the services around them.
outside == <<requests, ntrip, daemon>>

others == <<wifi_positioning, worker, session, connection_errors, exit,
            last_hook, lost_position_sent, emitted, held, outside, steps>>

vars == <<now, configured, main_device, fix_timeout, update_timeout, positions,
          last_position, last_clean, elevation_data, last_elevation,
          wifi_positions, done, others>>

-----------------------------------------------------------------------------
\* Values

NaN == -1000000
Inf == 1000000
NoTime == -1
NoDevice == "None"

GRACE_SECONDS == 10
CLEAN_PERIOD == 10
ELEVATION_PERIOD == 60
DEFAULT_ACCURACY == 50
MIN_POINTS == 3
MAX_BOX_METERS == 50
MAX_DIST == 100
RING_STEP == 10
ROUND_UNIT == 10
CM_PER_UNIT == 111
LONG_AGO == -1000

isfinite(x) == x # NaN /\ x # Inf /\ x # -Inf
isnan(x) == x = NaN

\* The empty dict.
EmptyMap == [k \in {} |-> 0]

-----------------------------------------------------------------------------
\* class Position

NewPosition(device, dummy, accuracy) ==
    [device |-> device, dummy |-> dummy, last_update |-> NoTime,
     latitude |-> NaN, longitude |-> NaN, altitude |-> NaN, speed |-> NaN,
     accuracy |-> accuracy, mode |-> 0, last_fix |-> NoTime,
     satellites |-> <<>>]

\* Lexicographic "<" of the 3-tuples compared by __lt__.
TupleLt(a, b) ==
    \/ a[1] < b[1]
    \/ a[1] = b[1] /\ a[2] < b[2]
    \/ a[1] = b[1] /\ a[2] = b[2] /\ a[3] < b[3]

BoolInt(b) == IF b THEN 1 ELSE 0

Position_lt(self, other) ==
    IF self.last_fix # NoTime /\ other.last_fix # NoTime
    THEN TupleLt(<<BoolInt(self.dummy), self.mode, -self.last_fix>>,
                 <<BoolInt(other.dummy), other.mode, -other.last_fix>>)
    ELSE FALSE

\* set_attr without the test of the flag.
set_attr_always(self, attr, value, valid, flag, t) ==
    [self EXCEPT ![attr] = value, !.last_update = t]

set_attr(self, attr, value, valid, flag, t) ==
    IF flag \in valid
    THEN [self EXCEPT ![attr] = value, !.last_update = t]
    ELSE self

\* update_fix refreshing last_fix whatever the report.
update_fix_refreshing(self, fix, valid, t) == [self EXCEPT !.last_fix = t]

\* update_fix without the 10 seconds of grace.
update_fix_no_grace(self, fix, valid, t) ==
    IF "MODE_SET" \notin valid THEN self
    ELSE IF fix.mode >= 2
    THEN LET p0 == [self EXCEPT !.last_fix = t]
             p1 == set_attr(p0, "latitude", fix.latitude, valid, "LATLON_SET", t)
             p2 == set_attr(p1, "longitude", fix.longitude, valid, "LATLON_SET", t)
             p3 == set_attr(p2, "speed", fix.speed, valid, "SPEED_SET", t)
             p4 == set_attr(p3, "mode", fix.mode, valid, "MODE_SET", t)
         IN  [p4 EXCEPT !.accuracy = DEFAULT_ACCURACY]
    ELSE [self EXCEPT !.latitude = NaN, !.longitude = NaN, !.altitude = NaN,
                      !.speed = NaN, !.accuracy = NaN]

update_fix(self, fix, valid, t) ==
    IF "MODE_SET" \notin valid THEN self
    ELSE IF fix.mode >= 2
    THEN LET p0 == [self EXCEPT !.last_fix = t]
             p1 == set_attr(p0, "latitude", fix.latitude, valid, "LATLON_SET", t)
             p2 == set_attr(p1, "longitude", fix.longitude, valid, "LATLON_SET", t)
             p3 == set_attr(p2, "speed", fix.speed, valid, "SPEED_SET", t)
             p4 == set_attr(p3, "mode", fix.mode, valid, "MODE_SET", t)
         IN  [p4 EXCEPT !.accuracy = DEFAULT_ACCURACY]
    ELSE IF self.last_fix # NoTime /\ t - self.last_fix < GRACE_SECONDS
    THEN self
    ELSE [self EXCEPT !.latitude = NaN, !.longitude = NaN, !.altitude = NaN,
                      !.speed = NaN, !.accuracy = NaN]

update_satellites(self, satellites, valid, t) ==
    set_attr(self, "satellites", satellites, valid, "SATELLITE_SET", t)

update_altitude(self, altitude) == [self EXCEPT !.altitude = altitude]

\* is_valid accepting mode 1 (no fix).
is_valid_from_mode_1(self) ==
    isfinite(self.latitude) /\ isfinite(self.longitude) /\ self.mode >= 1

is_valid(self) ==
    isfinite(self.latitude) /\ isfinite(self.longitude) /\ self.mode >= 2

\* is_old returns None (falsy) when there is no date.
is_old(date, max_seconds, t) ==
    IF date = NoTime THEN FALSE ELSE t - date > max_seconds

is_update_old(self, max_seconds, t) == is_old(self.last_update, max_seconds, t)

is_fix_old(self, max_seconds, t) == is_old(self.last_fix, max_seconds, t)

-----------------------------------------------------------------------------
\* The dict self.positions and references to its Position objects

Devices(ps) == {ps[i].device : i \in 1..Len(ps)}

HasDevice(ps, d) == d \in Devices(ps)

IndexOf(ps, d) == CHOOSE i \in 1..Len(ps) : ps[i].device = d

Pos(ps, d) == ps[IndexOf(ps, d)]

SetPos(ps, d, p) == [ps EXCEPT ![IndexOf(ps, d)] = p]

\* An operation without argument, or without result.
Void == [kind |-> "void"]

\* The record of a completed operation.
Done(op, arg, result) == [op |-> op, arg |-> arg, result |-> result]

NoRef == [kind |-> "none"]
Live(d) == [kind |-> "live", device |-> d]
Detached(p) == [kind |-> "detached", pos |-> p]

\* The object a reference points to.
Deref(ref, ps) == IF ref.kind = "live" THEN Pos(ps, ref.device) ELSE ref.pos

\* A reference after `del self.positions[d]` for every d of ps not in ps2.
AfterDelete(ref, ps, ps2) ==
    IF ref.kind = "live" /\ ~HasDevice(ps2, ref.device)
    THEN Detached(Pos(ps, ref.device))
    ELSE ref

-----------------------------------------------------------------------------
\* Elevation cache

\* round(x, 4): the nearest multiple of 1e-4 degree, an exact half going to
\* the even multiple; round(nan, 4) is nan.
round4(x) ==
    IF ~isfinite(x) THEN x
    ELSE LET q == x \div ROUND_UNIT
             r == x % ROUND_UNIT
         IN  IF 2 * r < ROUND_UNIT THEN q * ROUND_UNIT
             ELSE IF 2 * r > ROUND_UNIT THEN (q + 1) * ROUND_UNIT
             ELSE IF q % 2 = 0 THEN q * ROUND_UNIT
             ELSE (q + 1) * ROUND_UNIT

round_position(latitude, longitude) == <<round4(latitude), round4(longitude)>>

\* str() of the rounded pair: one key per pair of rounded coordinates, and
\* one key "(nan, nan)" for every NaN.
elevation_key(latitude, longitude) == round_position(latitude, longitude)

\* cache_elevation storing the elevation whether or not the key is cached.
cache_elevation_overwrite(data, latitude, longitude, elevation) ==
    LET key == elevation_key(latitude, longitude)
    IN  [k \in DOMAIN data \cup {key} |->
            IF k = key THEN elevation ELSE data[k]]

cache_elevation(data, latitude, longitude, elevation) ==
    LET key == elevation_key(latitude, longitude)
    IN  IF key \notin DOMAIN data THEN data @@ (key :> elevation) ELSE data

\* get_elevation that never finds the key.
get_elevation_miss(data, latitude, longitude) == NaN

get_elevation(data, latitude, longitude) ==
    LET key == elevation_key(latitude, longitude)
    IN  IF key \in DOMAIN data THEN data[key] ELSE NaN

-----------------------------------------------------------------------------
\* Arbitration

\* sorted(..., reverse=True) with __lt__: a stable sort in descending order.
\* x goes before the first element that is less than x.
RECURSIVE InsertReverse(_, _, _)
InsertReverse(sorted, x, i) ==
    IF i > Len(sorted) THEN Append(sorted, x)
    ELSE IF Position_lt(sorted[i], x)
    THEN SubSeq(sorted, 1, i - 1) \o <<x>> \o SubSeq(sorted, i, Len(sorted))
    ELSE InsertReverse(sorted, x, i + 1)

RECURSIVE SortedReverse(_)
SortedReverse(s) ==
    IF s = <<>> THEN <<>>
    ELSE InsertReverse(SortedReverse(SubSeq(s, 1, Len(s) - 1)), s[Len(s)], 1)

\* The valid entries of the table, in dict order.
ValidPositions(ps) == SelectSeq(ps, is_valid)

\* get_position_device without the main device's precedence.
get_position_device_no_main(ps, conf, main) ==
    IF ~conf THEN NoDevice
    ELSE LET dev_pos == SortedReverse(ValidPositions(ps))
         IN  IF Len(dev_pos) = 0 THEN NoDevice ELSE dev_pos[1].device

get_position_device(ps, conf, main) ==
    IF ~conf THEN NoDevice
    ELSE IF main # NoDevice /\ HasDevice(ps, main) /\ is_valid(Pos(ps, main))
    THEN main
    ELSE LET dev_pos == SortedReverse(ValidPositions(ps))
         IN  IF Len(dev_pos) = 0 THEN NoDevice ELSE dev_pos[1].device

\* get_position: the new value of last_position, which is also what is
\* returned.
get_position(ps, lp, conf, main, ftimeout, t) ==
    LET device == get_position_device(ps, conf, main)
    IN  IF device # NoDevice THEN Live(device)
        ELSE IF ftimeout # 0 /\ lp.kind # "none"
                /\ is_fix_old(Deref(lp, ps), ftimeout, t)
        THEN NoRef
        ELSE lp

-----------------------------------------------------------------------------
\* GPSD.update, for the report r = [valid, device, fix, satellites] held by
\* the session after a read.

IsReport(r) == "ONLINE_SET" \in r.valid /\ r.device # NoDevice

\* The Position of r.device after the report.
updated_position(self, data, r, t) ==
    LET p1 == update_fix(self, r.fix, r.valid, t)
        p2 == IF "ALTITUDE_SET" \in r.valid
              THEN update_altitude(p1, r.fix.altMSL)
              ELSE update_altitude(p1,
                       get_elevation(data, r.fix.latitude, r.fix.longitude))
    IN  update_satellites(p2, r.satellites, r.valid, t)

update_positions(ps, data, r, t) ==
    LET ps1 == IF HasDevice(ps, r.device) THEN ps
               ELSE Append(ps, NewPosition(r.device, FALSE, NaN))
    IN  SetPos(ps1, r.device, updated_position(Pos(ps1, r.device), data, r, t))

\* update without the caching of the altitude.
update_elevations_skipped(data, r) == data

update_elevations(data, r) ==
    IF "ALTITUDE_SET" \in r.valid
    THEN cache_elevation(data, r.fix.latitude, r.fix.longitude, r.fix.altMSL)
    ELSE data

Update(r) ==
    /\ UNCHANGED others
    /\ configured
    /\ IF IsReport(r)
       THEN /\ positions' = update_positions(positions, elevation_data, r, now)
            /\ elevation_data' = update_elevations(elevation_data, r)
       ELSE UNCHANGED <<positions, elevation_data>>
    /\ done' = Done("update", r, Void)
    /\ UNCHANGED <<now, configured, main_device, fix_timeout, update_timeout,
                   last_position, last_clean, last_elevation, wifi_positions>>

\* GPSD.clean
\* clean keeping every Position.
NotUpdateOld_never(p) == TRUE

NotUpdateOld(p) == ~is_update_old(p, update_timeout, now)

Clean ==
    /\ UNCHANGED others
    /\ configured
    /\ IF update_timeout = 0 \/ now - last_clean < CLEAN_PERIOD
       THEN UNCHANGED <<positions, last_position, last_clean>>
       ELSE /\ last_clean' = now
            /\ positions' = SelectSeq(positions, NotUpdateOld)
            /\ last_position' = AfterDelete(last_position, positions, positions')
    /\ done' = Done("clean", Void, Void)
    /\ UNCHANGED <<now, configured, main_device, fix_timeout, update_timeout,
                   elevation_data, last_elevation, wifi_positions>>

\* GPSD.get_position
GetPosition ==
    /\ UNCHANGED others
    /\ last_position' = get_position(positions, last_position, configured,
                                     main_device, fix_timeout, now)
    /\ done' = Done("get_position", Void, last_position')
    /\ UNCHANGED <<now, configured, main_device, fix_timeout, update_timeout,
                   positions, last_clean, elevation_data, last_elevation,
                   wifi_positions>>

\* Time passes.
Tick(dt) ==
    /\ UNCHANGED others
    /\ now' = now + dt
    /\ done' = Done("tick", dt, Void)
    /\ UNCHANGED <<configured, main_device, fix_timeout, update_timeout,
                   positions, last_position, last_clean, elevation_data,
                   last_elevation, wifi_positions>>

-----------------------------------------------------------------------------
\* Elevation backfill

\* What a call gives back: a value, or an exception that leaves it.
Return(value) == [kind |-> "return", value |-> value]
Raise(exception) == [kind |-> "raise", exception |-> exception]

\* range(10, max_dist + 1, 10)
Distances(max_dist) == [i \in 1..(max_dist \div RING_STEP) |-> i * RING_STEP]

\* The bearings of a ring. The code walks range(0, 360); the model walks the
\* eight points of the compass.
Bearings == <<0, 45, 90, 135, 180, 225, 270, 315>>

\* 1000 * cos(degree) and 1000 * sin(degree)
MilliCos(degree) ==
    CASE degree = 0 -> 1000
      [] degree \in {45, 315} -> 707
      [] degree \in {90, 270} -> 0
      [] degree \in {135, 225} -> -707
      [] degree = 180 -> -1000

MilliSin(degree) ==
    CASE degree \in {0, 180} -> 0
      [] degree \in {45, 135} -> 707
      [] degree = 90 -> 1000
      [] degree \in {225, 315} -> -707
      [] degree = 270 -> -1000

\* dist metres along an axis scaled by milli / 1000, in units of 1e-5 degree.
Offset(dist, milli) ==
    LET abs == IF milli < 0 THEN -milli ELSE milli
        units == (dist * 100 * abs) \div (CM_PER_UNIT * 1000)
    IN  IF milli < 0 THEN -units ELSE units

\* geopy.distance.distance(meters=dist).destination(center, bearing=degree),
\* on the plane tangent to the center.
destination(center, dist, degree) ==
    <<center[1] + Offset(dist, MilliCos(degree)),
      center[2] + Offset(dist, MilliSin(degree))>>

\* The points of the rings around center, in the order of the two loops.
RingPoints(center, max_dist) ==
    LET nb == Len(Bearings)
        dists == Distances(max_dist)
    IN  [n \in 1..(Len(dists) * nb) |->
            destination(center, dists[((n - 1) \div nb) + 1],
                        Bearings[((n - 1) % nb) + 1])]

\* append_location keeping the points that are cached.
append_location_cached(locations, data, latitude, longitude) ==
    LET rounded == round_position(latitude, longitude)
    IN  Append(locations,
               [latitude |-> rounded[1], longitude |-> rounded[2]])

append_location(locations, data, latitude, longitude) ==
    IF elevation_key(latitude, longitude) \notin DOMAIN data
    THEN LET rounded == round_position(latitude, longitude)
         IN  Append(locations,
                    [latitude |-> rounded[1], longitude |-> rounded[2]])
    ELSE locations

\* The calls of append_location for points[i..], in order. Each list is
\* evaluated (its length is taken) before the next call starts.
RECURSIVE AppendLocations(_, _, _, _)
AppendLocations(locations, data, points, i) ==
    IF i > Len(points) THEN locations
    ELSE LET next == append_location(locations, data, points[i][1],
                                     points[i][2])
         IN  IF Len(next) >= 0
             THEN AppendLocations(next, data, points, i + 1)
             ELSE next

\* The loop that filters duplicates, from locations[i]: the first occurrence
\* of each location.
RECURSIVE FilterDuplicates(_, _, _)
FilterDuplicates(locations, seen, i) ==
    IF i > Len(locations) THEN seen
    ELSE LET next == IF \E j \in 1..Len(seen) : seen[j] = locations[i]
                     THEN seen ELSE Append(seen, locations[i])
         IN  IF Len(next) >= 0
             THEN FilterDuplicates(locations, next, i + 1)
             ELSE next

\* calculate_locations, for the reference lp that get_position returned.
\* geopy refuses a center that is not finite with a ValueError.
calculate_locations(ps, lp, data, max_dist) ==
    IF lp.kind = "none" THEN Return(<<>>)
    ELSE LET coords == Deref(lp, ps)
         IN  IF coords.mode # 2 THEN Return(<<>>)
             ELSE IF ~(isfinite(coords.latitude) /\ isfinite(coords.longitude))
             THEN Raise("ValueError")
             ELSE LET first == append_location(<<>>, data, coords.latitude,
                                               coords.longitude)
                      center == round_position(coords.latitude,
                                               coords.longitude)
                      points == RingPoints(center, max_dist)
                      locations == AppendLocations(first, data, points, 1)
                  IN  Return(FilterDuplicates(locations, <<>>, 1))

CalculateLocations ==
    /\ UNCHANGED others
    /\ last_position' = get_position(positions, last_position, configured,
                                     main_device, fix_timeout, now)
    /\ done' = Done("calculate_locations", Void,
                    calculate_locations(positions, last_position',
                                        elevation_data, MAX_DIST))
    /\ UNCHANGED <<now, configured, main_device, fix_timeout, update_timeout,
                   positions, last_clean, elevation_data, last_elevation,
                   wifi_positions>>

\* fetch_open_elevation, for the answer of the service:
\*   error     the request fails with a requests.RequestException (network
\*             error, timeout, status that is not 2xx) or the body is not
\*             JSON: the error is logged and None is returned, which the
\*             caller treats like an empty list;
\*   results   the JSON body has a member "results": one result per
\*             location; without it response.json()["results"] raises
\*             KeyError, which nothing catches.
fetch_open_elevation(locations, response) ==
    IF response.error THEN Return(<<>>)
    ELSE IF ~response.results THEN Raise("KeyError")
    ELSE Return([i \in 1..Len(locations) |->
                    [latitude |-> locations[i].latitude,
                     longitude |-> locations[i].longitude,
                     elevation |-> response.elevation]])

\* The loop over the results, from results[i].
RECURSIVE CacheResults(_, _, _)
CacheResults(data, results, i) ==
    IF i > Len(results) THEN data
    ELSE LET next == cache_elevation(data, results[i].latitude,
                                     results[i].longitude,
                                     results[i].elevation)
         IN  IF DOMAIN next # {}
             THEN CacheResults(next, results, i + 1)
             ELSE next

\* update_cache_elevation whatever the time of the last attempt.
elevation_always_allowed(cfg, t, last) == cfg

\* The guard of update_cache_elevation: the engine is configured and the
\* last attempt is more than 60 seconds old.
elevation_allowed(cfg, t, last) == cfg /\ t - last > ELEVATION_PERIOD

\* update_cache_elevation, with the answer the service gives if it is asked.
\* The result is how the call ends: it returns None, or an exception of
\* calculate_locations or fetch_open_elevation leaves it.
UpdateCacheElevation(response) ==
    /\ IF ~elevation_allowed(configured, now, last_elevation)
       THEN /\ UNCHANGED <<last_elevation, last_position, elevation_data,
                           requests>>
            /\ done' = Done("update_cache_elevation", response, Return(Void))
       ELSE /\ last_elevation' = now
            /\ last_position' = get_position(positions, last_position,
                                             configured, main_device,
                                             fix_timeout, now)
            /\ \E locations \in {calculate_locations(
                       positions, last_position', elevation_data, MAX_DIST)} :
                   IF locations.kind = "raise"
                   THEN /\ UNCHANGED <<elevation_data, requests>>
                        /\ done' = Done("update_cache_elevation", response,
                                        locations)
                   ELSE IF locations.value = <<>>
                   THEN /\ UNCHANGED <<elevation_data, requests>>
                        /\ done' = Done("update_cache_elevation", response,
                                        Return(Void))
                   ELSE \E results \in {fetch_open_elevation(
                                locations.value, response)} :
                            /\ requests' = Append(requests, now)
                            /\ IF results.kind = "raise"
                               THEN /\ UNCHANGED elevation_data
                                    /\ done' = Done("update_cache_elevation",
                                                    response, results)
                               ELSE /\ elevation_data' = CacheResults(
                                           elevation_data, results.value, 1)
                                    /\ done' = Done("update_cache_elevation",
                                                    response, Return(Void))
    /\ UNCHANGED <<now, configured, main_device, fix_timeout, update_timeout,
                   positions, last_clean, wifi_positions, wifi_positioning,
                   worker, session, connection_errors, exit, last_hook,
                   lost_position_sent, emitted, held, ntrip, daemon, steps>>

-----------------------------------------------------------------------------
\* Wi-Fi positioning

\* The values of the function f over the set S, as a sequence in ascending
\* order (sorted(), as statistics.median uses it).
RECURSIVE SortedValues(_, _)
SortedValues(f, S) ==
    IF S = {} THEN <<>>
    ELSE LET b == CHOOSE x \in S : \A y \in S : f[x] <= f[y]
         IN  <<f[b]>> \o SortedValues(f, S \ {b})

\* statistics.median_low: the lower of the two middle values.
median_low(data) == data[(Len(data) + 1) \div 2]

\* statistics.median of a non-empty sorted sequence. The coordinates and
\* altitudes stored by the model are even, so the mean of the two middle
\* values is exact.
median(data) ==
    LET n == Len(data)
    IN  IF n % 2 = 1 THEN data[(n + 1) \div 2]
        ELSE (data[n \div 2] + data[n \div 2 + 1]) \div 2

Lats(store, S) == [b \in S |-> store[b].latitude]
Longs(store, S) == [b \in S |-> store[b].longitude]
Alts(store, S) == [b \in S |-> store[b].altitude]

\* geopy.distance.distance(a, b).meters > limit, on the plane tangent to the
\* points: CM_PER_UNIT centimetres for 1e-5 degree on both axes.
distance_over(a, b, limit_m) ==
    CM_PER_UNIT * CM_PER_UNIT
        * ((a[1] - b[1]) * (a[1] - b[1]) + (a[2] - b[2]) * (a[2] - b[2]))
    > (limit_m * 100) * (limit_m * 100)

\* The BSSIDs of the list that have a stored location (the AP list holds
\* each BSSID once).
wifi_points(store, bssids) == bssids \cap DOMAIN store

wifi_box_min(store, S) ==
    <<SortedValues(Lats(store, S), S)[1], SortedValues(Longs(store, S), S)[1]>>

wifi_box_max(store, S) ==
    <<SortedValues(Lats(store, S), S)[Cardinality(S)],
      SortedValues(Longs(store, S), S)[Cardinality(S)]>>

\* wifi_skipped without the test of the box.
wifi_skipped_few_points(store, bssids) ==
    Cardinality(wifi_points(store, bssids)) < MIN_POINTS

\* update_wifi returns before writing anything.
wifi_skipped(store, bssids) ==
    LET S == wifi_points(store, bssids)
    IN  \/ Cardinality(S) < MIN_POINTS
        \/ distance_over(wifi_box_min(store, S), wifi_box_max(store, S),
                         MAX_BOX_METERS)

wifi_altitude(store, data, S, latitude, longitude) ==
    LET A == {b \in S : ~isnan(store[b].altitude)}
    IN  IF A # {} THEN median(SortedValues(Alts(store, A), A))
        ELSE get_elevation(data, latitude, longitude)

update_wifi(ps, store, data, bssids, t) ==
    IF wifi_skipped(store, bssids) THEN ps
    ELSE LET S == wifi_points(store, bssids)
             latitude == median(SortedValues(Lats(store, S), S))
             longitude == median(SortedValues(Longs(store, S), S))
             altitude == wifi_altitude(store, data, S, latitude, longitude)
             ps1 == IF HasDevice(ps, "wifi") THEN ps
                    ELSE Append(ps, NewPosition("wifi", TRUE, DEFAULT_ACCURACY))
         IN  SetPos(ps1, "wifi",
                    [Pos(ps1, "wifi") EXCEPT
                        !.latitude = latitude, !.longitude = longitude,
                        !.altitude = altitude, !.last_update = t,
                        !.last_fix = t,
                        !.mode = IF isnan(altitude) THEN 2 ELSE 3])

UpdateWifi(bssids) ==
    /\ UNCHANGED others
    /\ configured
    /\ positions' = update_wifi(positions, wifi_positions, elevation_data,
                                bssids, now)
    /\ done' = Done("update_wifi", bssids, Void)
    /\ UNCHANGED <<now, configured, main_device, fix_timeout, update_timeout,
                   last_position, last_clean, elevation_data, last_elevation,
                   wifi_positions>>

\* GPSD.update_wifi_positions
update_wifi_positions(store, bssid, lat, long, alt) ==
    IF isnan(lat) \/ isnan(long) THEN store
    ELSE [b \in DOMAIN store \cup {bssid} |->
             IF b = bssid
             THEN [latitude |-> lat, longitude |-> long, altitude |-> alt]
             ELSE store[b]]

UpdateWifiPositions(bssid, lat, long, alt) ==
    /\ UNCHANGED others
    /\ configured
    /\ wifi_positions' = update_wifi_positions(wifi_positions, bssid, lat,
                                               long, alt)
    /\ done' = Done("update_wifi_positions", bssid, Void)
    /\ UNCHANGED <<now, configured, main_device, fix_timeout, update_timeout,
                   positions, last_position, last_clean, elevation_data,
                   last_elevation>>

-----------------------------------------------------------------------------
\* Construction and configuration

\* No event yet, no Position handed out yet.
NoEvent == [last |-> "none", available |-> FALSE]
NoHeld == [kind |-> "none"]

\* The state of the plugin's option, the thread and the hook after
\* construction.
\* The session's buffer after gps.gps() and after the soft reset of update:
\* no bit, no device, an empty gps.gpsfix(), no satellite.
EmptyBuffer ==
    [valid |-> {}, device |-> NoDevice,
     fix |-> [mode |-> 0, latitude |-> NaN, longitude |-> NaN, speed |-> NaN,
              altMSL |-> NaN],
     satellites |-> <<>>]

\* The threads: the one of GPSD.run, and one of the caller's (plugin
\* callbacks, web handlers).
Threads == {"worker", "caller"}

InitSteps ==
    /\ raw = EmptyBuffer
    /\ lock = "free"
    /\ frames = [th \in Threads |-> <<>>]
    /\ at = "run"

\* No URL: current_url is None, select_ntrip_server returns None.
NoUrl == "None"

InitOthers ==
    /\ InitSteps
    /\ requests = <<>>
    /\ daemon = [pid |-> 1, urls |-> {}]
    /\ ntrip = [ready |-> FALSE, last_update |-> 0, gpsd_pid |-> 1,
                current_url |-> NoUrl, position_iset |-> FALSE]
    /\ wifi_positioning = FALSE
    /\ worker = "new"
    /\ session = FALSE
    /\ connection_errors = 0
    /\ exit = FALSE
    /\ last_hook = 0
    /\ lost_position_sent = FALSE
    /\ emitted = NoEvent
    /\ held = NoHeld

Init ==
    /\ InitOthers
    /\ now = 0
    /\ configured = FALSE
    /\ main_device = NoDevice
    /\ fix_timeout = 120
    /\ update_timeout = 120
    /\ positions = <<>>
    /\ last_position = NoRef
    /\ last_clean = 0
    /\ elevation_data = EmptyMap
    /\ last_elevation = LONG_AGO
    /\ wifi_positions = EmptyMap
    /\ done = Done("init", Void, Void)

\* GPSD_ng.on_config_changed calling GPSD.configure: an update timeout
\* under the fix timeout is raised to it; the two snapshots are loaded.
Configure(main, ftimeout, utimeout, elevations, wifi) ==
    /\ UNCHANGED others
    /\ ~configured
    /\ configured' = TRUE
    /\ main_device' = main
    /\ fix_timeout' = ftimeout
    /\ update_timeout' = IF utimeout < ftimeout THEN ftimeout ELSE utimeout
    /\ elevation_data' = elevations
    /\ wifi_positions' = wifi
    /\ done' = Done("configure", Void, Void)
    /\ UNCHANGED <<now, positions, last_position, last_clean, last_elevation>>

-----------------------------------------------------------------------------
\* Reports read from gpsd (python3-gps fills session.valid, session.device,
\* session.fix and session.satellites; a field whose bit is not set keeps the
\* default of gps.gpsfix(): NaN, mode 0).

Fix(mode, latitude, longitude, speed, altMSL) ==
    [mode |-> mode, latitude |-> latitude, longitude |-> longitude,
     speed |-> speed, altMSL |-> altMSL]

Report(valid, device, fix, satellites) ==
    [valid |-> valid, device |-> device, fix |-> fix, satellites |-> satellites]

\* TPV with a 3D fix, a 2D fix, and no fix; SKY with n satellites.
Tpv3D(device, lat, long, alt) ==
    Report({"ONLINE_SET", "MODE_SET", "LATLON_SET", "ALTITUDE_SET"}, device,
           Fix(3, lat, long, NaN, alt), <<>>)

Tpv2D(device, lat, long) ==
    Report({"ONLINE_SET", "MODE_SET", "LATLON_SET"}, device,
           Fix(2, lat, long, NaN, NaN), <<>>)

TpvNoFix(device) ==
    Report({"ONLINE_SET", "MODE_SET"}, device, Fix(1, NaN, NaN, NaN, NaN), <<>>)

\* A SKY message with its satellites; a message that is neither TPV nor
\* SKY (VERSION, DEVICES, WATCH): no device.
Sky(device, satellites) ==
    Report({"ONLINE_SET", "SATELLITE_SET"}, device,
           Fix(0, NaN, NaN, NaN, NaN), satellites)

-----------------------------------------------------------------------------
\* The session's buffer between the reads. session.read() of python3-gps
\* unpacks one message into the buffer: a TPV sets the device, the bits and
\* every field of session.fix (the default where the message has none) and
\* leaves session.satellites; a SKY sets the device, the bits and the
\* satellites and leaves session.fix; another message sets only the bits.

session_read(buf, msg) ==
    IF msg.device = NoDevice THEN [buf EXCEPT !.valid = msg.valid]
    ELSE IF "SATELLITE_SET" \in msg.valid
    THEN [buf EXCEPT !.valid = msg.valid, !.device = msg.device,
                     !.satellites = msg.satellites]
    ELSE [buf EXCEPT !.valid = msg.valid, !.device = msg.device,
                     !.fix = msg.fix]

\* update without its soft reset.
soft_reset_skipped(buf) == buf

\* The soft reset at the end of update.
soft_reset(buf) ==
    [buf EXCEPT !.valid = {}, !.device = NoDevice,
                !.fix = [mode |-> 0, latitude |-> NaN, longitude |-> NaN,
                         speed |-> NaN, altMSL |-> NaN],
                !.satellites = <<>>]

\* The loop reads a message and calls update, which consumes the buffer:
\* `if self.session.waiting(timeout=2) and self.session.read() == 0:
\* self.update()`. Without device or ONLINE_SET update returns before the
\* reset.
ReadUpdate(msg) ==
    /\ configured
    /\ \E r \in {session_read(raw, msg)} :
           /\ IF IsReport(r)
              THEN /\ positions' = update_positions(positions, elevation_data,
                                                    r, now)
                   /\ elevation_data' = update_elevations(elevation_data, r)
                   /\ raw' = soft_reset(r)
              ELSE /\ UNCHANGED <<positions, elevation_data>>
                   /\ raw' = r
           /\ done' = Done("update", r, msg)
    /\ UNCHANGED <<now, configured, main_device, fix_timeout, update_timeout,
                   last_position, last_clean, last_elevation, wifi_positions,
                   wifi_positioning, worker, session, connection_errors, exit,
                   last_hook, lost_position_sent, emitted, held, outside, lock, frames,
                   at>>

-----------------------------------------------------------------------------
\* Specification SpecArb: several devices and the Wi-Fi position compete;
\* fixes are lost, devices are cleaned, time passes.

MaxTime == 20

ArbTicks == {10}
ArbDevices == {"gps0", "gps1"}
ArbBssids == {"ap1", "ap2", "ap3"}

\* Three access points within a few metres, without altitude.
ArbStore ==
    [b \in ArbBssids |->
        [latitude |-> IF b = "ap1" THEN 0 ELSE 2,
         longitude |-> IF b = "ap3" THEN 2 ELSE 0,
         altitude |-> NaN]]

\* main_device, fix_timeout, update_timeout of the configuration.
ArbConfigs == {<<NoDevice, 10, 10>>, <<"gps0", 10, 10>>, <<NoDevice, 0, 0>>}

ArbReports ==
    UNION {{Tpv3D(d, 4, 4, 30), Tpv2D(d, 4, 4), TpvNoFix(d)} : d \in ArbDevices}

NextArb ==
    \/ \E c \in ArbConfigs :
           Configure(c[1], c[2], c[3], EmptyMap, ArbStore)
    \/ \E r \in ArbReports : Update(r)
    \/ Clean
    \/ GetPosition
    \/ UpdateWifi(ArbBssids)
    \/ \E dt \in ArbTicks : now + dt <= MaxTime /\ Tick(dt)

SpecArb == Init /\ [][NextArb]_vars

-----------------------------------------------------------------------------
\* Claims about arbitration and the last-known position (SpecArb).
\* After get_position, done.result is what it returned and the table is the
\* one the call has seen.

\* A finite float: neither NaN nor an infinity.
Finite(x) == x \notin {NaN, Inf, -Inf}

\* A Position that can be used: a 2D or 3D fix with finite coordinates.
Usable(p) == p.mode >= 2 /\ Finite(p.latitude) /\ Finite(p.longitude)

UsableIndexes == {i \in 1..Len(positions) : Usable(positions[i])}

MainUsable ==
    /\ main_device # NoDevice
    /\ \E i \in 1..Len(positions) :
           positions[i].device = main_device /\ Usable(positions[i])

\* get_position has just returned.
Returned == done.op = "get_position"

\* get_position has just returned the table's Position of some device.
ReturnedDevice == Returned /\ done.result.kind = "live"

\* C1: with no valid main device and some valid device in the table,
\* get_position selects a valid device whose mode is the highest among the
\* valid devices of the table (a valid 3D fix beats a valid 2D fix whatever
\* the lastFix times, the "wifi" Position included).
C1_HighestModeSelected ==
    (Returned /\ ~MainUsable /\ UsableIndexes # {}) =>
        /\ ReturnedDevice
        /\ Usable(Pos(positions, done.result.device))
        /\ \A i \in UsableIndexes :
               positions[i].mode <= Pos(positions, done.result.device).mode

\* C2: when arbitration selects a device among the valid devices that share
\* the highest mode, it is one whose lastFix is the most recent of them.
C2_MostRecentSelected ==
    (ReturnedDevice /\ ~MainUsable /\ UsableIndexes # {}) =>
        LET sel == Pos(positions, done.result.device)
            best == {i \in UsableIndexes :
                        \A j \in UsableIndexes :
                            positions[j].mode <= positions[i].mode}
        IN  (\E i \in best : positions[i].device = done.result.device) =>
                \A i \in best : positions[i].last_fix <= sel.last_fix

\* C3: a configured main device that is in the table and valid is the one
\* returned, whatever the other devices; when it is absent or not valid the
\* call goes on to arbitration: it returns a valid device of the table if
\* there is one, and otherwise no device of the table that is valid.
C3_MainDeviceReturned ==
    Returned =>
        /\ MainUsable => done.result = Live(main_device)
        /\ (~MainUsable /\ UsableIndexes # {}) =>
               (ReturnedDevice /\ Usable(Pos(positions, done.result.device)))
        /\ (~MainUsable /\ UsableIndexes = {} /\ ReturnedDevice) =>
               ~Usable(Pos(positions, done.result.device))

\* The main device was returned although another valid device has a better
\* mode and a more recent fix.
C3_Witness ==
    /\ MainUsable
    /\ done.result = Live(main_device)
    /\ \E i \in UsableIndexes :
           /\ positions[i].device # main_device
           /\ positions[i].mode > Pos(positions, main_device).mode
           /\ positions[i].last_fix > Pos(positions, main_device).last_fix

\* C4: with a fix timeout set, when no device of the table is valid
\* get_position returns the last valid position (a Position with a fix and
\* finite coordinates) while at most fix_timeout seconds have passed since
\* its lastFix, and None after that.
C4_LastValidUntilTimeout ==
    (Returned /\ fix_timeout # 0 /\ UsableIndexes = {} /\ done.result.kind # "none") =>
        /\ now - Deref(done.result, positions).last_fix <= fix_timeout
        /\ Usable(Deref(done.result, positions))

-----------------------------------------------------------------------------
\* Specification SpecUpd: one device delivers every kind of report (each
\* subset of the mode, lat/lon, speed and altitude bits, with two values per
\* field; satellite reports) while time passes.

UpdTicks == {10}
UpdDevices == {"gps0"}

\* What a field holds when its bit is set in the report.
UpdModes == {1, 2, 3}
UpdCoords == {4, 6}
UpdSpeeds == {2, 8}
UpdAlts == {30}
UpdSats == {<<[PRN |-> 1, used |-> TRUE]>>}

\* The values of a field of the report: one of vals under its bit, the
\* default of gps.gpsfix() without it.
FieldValues(bit, bits, vals, default) == IF bit \in bits THEN vals ELSE {default}

UpdTpv ==
    {Report(bits \cup {"ONLINE_SET"}, d, Fix(m, c, c, s, a), <<>>) :
        <<bits, d, m, c, s, a>> \in
            {x \in (SUBSET {"MODE_SET", "LATLON_SET", "SPEED_SET", "ALTITUDE_SET"})
                     \X UpdDevices \X (UpdModes \cup {0}) \X (UpdCoords \cup {NaN})
                     \X (UpdSpeeds \cup {NaN}) \X (UpdAlts \cup {NaN}) :
                /\ x[3] \in FieldValues("MODE_SET", x[1], UpdModes, 0)
                /\ x[4] \in FieldValues("LATLON_SET", x[1], UpdCoords, NaN)
                /\ x[5] \in FieldValues("SPEED_SET", x[1], UpdSpeeds, NaN)
                /\ x[6] \in FieldValues("ALTITUDE_SET", x[1], UpdAlts, NaN)}}

UpdSky ==
    {Report({"ONLINE_SET", "SATELLITE_SET"}, d, Fix(0, NaN, NaN, NaN, NaN), sats) :
        d \in UpdDevices, sats \in UpdSats}

\* A message that is neither TPV nor SKY: no device.
UpdOther == {Report({"ONLINE_SET"}, NoDevice, Fix(0, NaN, NaN, NaN, NaN), <<>>)}

UpdReports == UpdTpv \cup UpdSky \cup UpdOther

NextUpd ==
    \/ Configure(NoDevice, 120, 120, EmptyMap, EmptyMap)
    \/ \E r \in UpdReports : Update(r)
    \/ \E dt \in UpdTicks : now + dt <= MaxTime /\ Tick(dt)

SpecUpd == Init /\ [][NextUpd]_vars

-----------------------------------------------------------------------------
\* Claims about update (SpecUpd). In a step that completes update,
\* done'.arg is the report; OldPosition is the device's Position before the
\* step (a new Position when the device was not in the table).

FreshPosition(d) ==
    [device |-> d, dummy |-> FALSE, last_update |-> NoTime, latitude |-> NaN,
     longitude |-> NaN, altitude |-> NaN, speed |-> NaN, accuracy |-> NaN,
     mode |-> 0, last_fix |-> NoTime, satellites |-> <<>>]

OldPosition(d) ==
    IF \E i \in 1..Len(positions) : positions[i].device = d
    THEN positions[CHOOSE i \in 1..Len(positions) : positions[i].device = d]
    ELSE FreshPosition(d)

NewPositionOf(d) ==
    positions'[CHOOSE i \in 1..Len(positions') : positions'[i].device = d]

\* The step applies a report to a device.
Applied ==
    /\ done'.op = "update"
    /\ "ONLINE_SET" \in done'.arg.valid
    /\ done'.arg.device # NoDevice

FixFields == {"latitude", "longitude", "speed", "mode"}

FieldBit(f) ==
    CASE f = "latitude" -> "LATLON_SET"
      [] f = "longitude" -> "LATLON_SET"
      [] f = "speed" -> "SPEED_SET"
      [] f = "mode" -> "MODE_SET"

\* Field f is written with the reported value iff its bit is set.
WrittenIffBitSet(r, old, new, f) ==
    IF FieldBit(f) \in r.valid THEN new[f] = r.fix[f] ELSE new[f] = old[f]

\* C5 as stated: in every applied report, each of latitude, longitude, speed
\* and mode is written with the reported value when its bit is set and left
\* untouched when it is not.
C5_WrittenIffBitSet ==
    [][Applied =>
          LET r == done'.arg
          IN  \A f \in FixFields :
                  WrittenIffBitSet(r, OldPosition(r.device),
                                   NewPositionOf(r.device), f)]_vars

\* C5 amended: the four fields are written iff their bit is set when the
\* report carries a valid mode >= 2. A report with no valid mode or with a
\* valid mode < 2 writes no reported value: mode is kept, and latitude,
\* longitude and speed are kept, except that a valid mode < 2 resets them to
\* NaN when the device has no fix less than 10 seconds old.
C5_WrittenIffBitSetWithFix ==
    [][Applied =>
          LET r == done'.arg
              old == OldPosition(r.device)
              new == NewPositionOf(r.device)
              in_grace == old.last_fix # NoTime /\ now - old.last_fix < 10
          IN  IF "MODE_SET" \in r.valid /\ r.fix.mode >= 2
              THEN \A f \in FixFields : WrittenIffBitSet(r, old, new, f)
              ELSE IF "MODE_SET" \in r.valid /\ ~in_grace
              THEN /\ new.mode = old.mode
                   /\ \A f \in FixFields \ {"mode"} : new[f] = NaN
              ELSE \A f \in FixFields : new[f] = old[f]]_vars

\* A 2D/3D report with the lat/lon bit and without the speed bit has been
\* applied to a device that had another latitude and a speed: the latitude is
\* the reported one, the speed is still there.
C5_Witness ==
    /\ done.op = "update"
    /\ {"ONLINE_SET", "MODE_SET", "LATLON_SET"} \subseteq done.arg.valid
    /\ "SPEED_SET" \notin done.arg.valid
    /\ done.arg.fix.mode >= 2
    /\ done.arg.fix.latitude = 6
    /\ \E i \in 1..Len(positions) :
           /\ positions[i].device = done.arg.device
           /\ positions[i].latitude = 6
           /\ positions[i].speed = 8
           /\ positions[i].last_fix > 0

-----------------------------------------------------------------------------
\* Specification SpecValid: is_valid applied to Positions of every mode,
\* with finite, NaN and infinite coordinates.

ValidModes == 0..3
ValidCoords == {4, NaN, Inf}
ValidSpeeds == {2, NaN}

ValidInputs ==
    {[NewPosition("gps0", FALSE, NaN) EXCEPT
          !.mode = m, !.latitude = lat, !.longitude = long, !.speed = s] :
        m \in ValidModes, lat \in ValidCoords, long \in ValidCoords,
        s \in ValidSpeeds}

InitValid ==
    /\ InitOthers
    /\ now = 0
    /\ configured = FALSE
    /\ main_device = NoDevice
    /\ fix_timeout = 120
    /\ update_timeout = 120
    /\ positions \in {<<p>> : p \in ValidInputs}
    /\ last_position = NoRef
    /\ last_clean = 0
    /\ elevation_data = EmptyMap
    /\ last_elevation = LONG_AGO
    /\ wifi_positions = EmptyMap
    /\ done = Done("init", Void, Void)

\* Position.is_valid() on a Position of the table.
IsValid(i) ==
    /\ UNCHANGED others
    /\ done' = Done("is_valid", positions[i], is_valid(positions[i]))
    /\ UNCHANGED <<now, configured, main_device, fix_timeout, update_timeout,
                   positions, last_position, last_clean, elevation_data,
                   last_elevation, wifi_positions>>

NextValid == \E i \in 1..Len(positions) : IsValid(i)

SpecValid == InitValid /\ [][NextValid]_vars

\* C6: is_valid() is true iff mode >= 2 and latitude and longitude are both
\* finite: false for mode 0 or 1 whatever the coordinates, false for a NaN
\* latitude or longitude whatever the mode.
C6_ValidIffFixAndFinite ==
    done.op = "is_valid" =>
        LET p == done.arg
        IN  /\ done.result = TRUE <=>
                   (p.mode >= 2 /\ Finite(p.latitude) /\ Finite(p.longitude))
            /\ p.mode \in {0, 1} => done.result = FALSE
            /\ (p.latitude = NaN \/ p.longitude = NaN) => done.result = FALSE

\* is_valid has answered False for a Position without fix (mode 1) whose
\* coordinates are finite.
C6_Witness ==
    /\ done.op = "is_valid"
    /\ done.arg.mode = 1
    /\ Finite(done.arg.latitude) /\ Finite(done.arg.longitude)
    /\ done.result = FALSE

-----------------------------------------------------------------------------
\* Specification SpecElev: one receiver, 3D fixes with two altitudes over one
\* cell of the grid, 2D fixes over two cells, the loss of the fix, and the
\* backfill of the elevation cache.

ElevTicks == {10}
ElevCaches == {EmptyMap, <<0, 0>> :> 10, <<20, 0>> :> 12}
ElevReports ==
    {Tpv3D("gps0", 4, 4, 30), Tpv3D("gps0", 4, 4, 32),
     Tpv2D("gps0", 4, 4), Tpv2D("gps0", 16, 4), TpvNoFix("gps0")}
ElevResponses ==
    {[error |-> TRUE, results |-> FALSE, elevation |-> NaN],
     [error |-> FALSE, results |-> FALSE, elevation |-> NaN],
     [error |-> FALSE, results |-> TRUE, elevation |-> 40]}

NextElev ==
    \/ \E elevations \in ElevCaches :
           Configure(NoDevice, 120, 120, elevations, EmptyMap)
    \/ \E r \in ElevReports : Update(r)
    \/ CalculateLocations
    \/ \E response \in ElevResponses : UpdateCacheElevation(response)
    \/ \E dt \in ElevTicks : now + dt <= MaxTime /\ Tick(dt)

SpecElev == Init /\ [][NextElev]_vars

\* C7: the elevation cache is first-wins: no step, neither a 3D fix nor the
\* backfill, changes or removes the elevation of a key that is cached.
C7_FirstElevationKept ==
    [][\A key \in DOMAIN elevation_data :
           /\ key \in DOMAIN elevation_data'
           /\ elevation_data'[key] = elevation_data[key]]_vars

\* A report with an altitude has been applied over a cell whose cached
\* elevation is another value, and the cache holds the older value.
C7_Witness ==
    /\ done.op = "update"
    /\ IsReport(done.arg)
    /\ "ALTITUDE_SET" \in done.arg.valid
    /\ LET key == elevation_key(done.arg.fix.latitude, done.arg.fix.longitude)
       IN  /\ key \in DOMAIN elevation_data
           /\ elevation_data[key] # done.arg.fix.altMSL

\* C8: the list calculate_locations returns holds no point whose key is in
\* the elevation cache, and no point twice.
C8_NoCachedNoDuplicate ==
    (done.op = "calculate_locations" /\ done.result.kind = "return") =>
        LET locations == done.result.value
        IN  /\ \A i \in 1..Len(locations) :
                   <<round4(locations[i].latitude),
                     round4(locations[i].longitude)>>
                       \notin DOMAIN elevation_data
            /\ \A i, j \in 1..Len(locations) :
                   locations[i] = locations[j] => i = j

\* calculate_locations has returned points around a 2D fix whose own cell is
\* cached.
C8_Witness ==
    /\ done.op = "calculate_locations"
    /\ done.result.kind = "return"
    /\ Len(done.result.value) > 0
    /\ last_position.kind = "live"
    /\ LET coords == Deref(last_position, positions)
       IN  /\ Finite(coords.latitude) /\ Finite(coords.longitude)
           /\ <<round4(coords.latitude), round4(coords.longitude)>>
                  \in DOMAIN elevation_data

-----------------------------------------------------------------------------
\* Specification SpecWifi: two stored access points 2 m apart, two more that
\* are learnt at 0, 33 or 66 m with or without an altitude, AP lists over
\* the four, one receiver with a 2D fix.

WifiTicks == {20}
WifiBssids == {"ap1", "ap2", "ap3", "ap4"}
WifiLearnt == {"ap3", "ap4"}
WifiStore ==
    [b \in {"ap1", "ap2"} |->
        IF b = "ap1"
        THEN [latitude |-> 0, longitude |-> 0, altitude |-> NaN]
        ELSE [latitude |-> 2, longitude |-> 2, altitude |-> NaN]]
WifiCoords == {<<2, 2>>, <<30, 0>>, <<60, 0>>, <<NaN, NaN>>}
WifiAlts == {NaN, 30}
WifiCaches == {EmptyMap, <<20, 0>> :> 10}
WifiReports == {Tpv2D("gps0", 4, 4)}

NextWifi ==
    \/ \E elevations \in WifiCaches :
           Configure(NoDevice, 120, 120, elevations, WifiStore)
    \/ \E r \in WifiReports : Update(r)
    \/ \E bssid \in WifiLearnt, c \in WifiCoords, alt \in WifiAlts :
           UpdateWifiPositions(bssid, c[1], c[2], alt)
    \/ \E bssids \in SUBSET WifiBssids : UpdateWifi(bssids)
    \/ \E dt \in WifiTicks : now + dt <= MaxTime /\ Tick(dt)

SpecWifi == Init /\ [][NextWifi]_vars

\* The BSSIDs of an AP list that have a stored position.
Matched(bssids) == bssids \cap DOMAIN wifi_positions

\* The k-th smallest of the values of f over the non-empty set S.
OrderStat(f, S, k) ==
    CHOOSE v \in {f[b] : b \in S} :
        /\ Cardinality({b \in S : f[b] < v}) <= k - 1
        /\ Cardinality({b \in S : f[b] > v}) <= Cardinality(S) - k

\* The median of the values of f over S: the middle value, or the mean of
\* the two middle values.
MedianOf(f, S) ==
    LET n == Cardinality(S)
    IN  IF n % 2 = 1 THEN OrderStat(f, S, (n + 1) \div 2)
        ELSE (OrderStat(f, S, n \div 2) + OrderStat(f, S, n \div 2 + 1))
                 \div 2

\* The diagonal of the box around the stored positions of S is over 50 m.
BoxOver50(S) ==
    LET lat == Lats(wifi_positions, S)
        long == Longs(wifi_positions, S)
        n == Cardinality(S)
    IN  distance_over(<<OrderStat(lat, S, 1), OrderStat(long, S, 1)>>,
                      <<OrderStat(lat, S, n), OrderStat(long, S, n)>>, 50)

\* C9: update_wifi changes nothing when fewer than three of its BSSIDs have
\* a stored position, or when the diagonal of the box around the matched
\* positions is over 50 m: every entry of the table keeps all its fields and
\* no "wifi" entry is created.
C9_SkippedChangesNothing ==
    [][(/\ done'.op = "update_wifi"
        /\ \/ Cardinality(Matched(done'.arg)) < 3
           \/ BoxOver50(Matched(done'.arg)))
       => UNCHANGED <<positions, last_position, wifi_positions,
                      elevation_data>>]_vars

\* update_wifi has been called with three matched positions or more whose
\* box is over 50 m, and the "wifi" entry of an earlier call is as it was.
C9_Witness ==
    /\ done.op = "update_wifi"
    /\ Cardinality(Matched(done.arg)) >= 3
    /\ BoxOver50(Matched(done.arg))
    /\ HasDevice(positions, "wifi")
    /\ Pos(positions, "wifi").last_fix < now

\* The altitude a successful update_wifi resolves: the median of the matched
\* altitudes that are numbers, else the cached elevation of the median
\* point, else NaN.
ResolvedAltitude(S, latitude, longitude) ==
    LET A == {b \in S : wifi_positions[b].altitude # NaN}
        key == <<round4(latitude), round4(longitude)>>
    IN  IF A # {} THEN MedianOf(Alts(wifi_positions, A), A)
        ELSE IF key \in DOMAIN elevation_data THEN elevation_data[key]
        ELSE NaN

\* C10: after update_wifi with three matched positions or more in a box of
\* at most 50 m, the table has a "wifi" entry with the medians of the
\* matched latitudes and longitudes, dummy true, last_update and last_fix
\* at the time of the call, and mode 3 if an altitude was resolved (the
\* median of the matched altitudes, else the cached elevation), else mode 2.
C10_WifiPositionFromMedians ==
    (/\ done.op = "update_wifi"
     /\ Cardinality(Matched(done.arg)) >= 3
     /\ ~BoxOver50(Matched(done.arg)))
    => /\ HasDevice(positions, "wifi")
       /\ LET S == Matched(done.arg)
              wifi == Pos(positions, "wifi")
              latitude == MedianOf(Lats(wifi_positions, S), S)
              longitude == MedianOf(Longs(wifi_positions, S), S)
              altitude == ResolvedAltitude(S, latitude, longitude)
          IN  /\ wifi.latitude = latitude
              /\ wifi.longitude = longitude
              /\ wifi.dummy = TRUE
              /\ wifi.last_update = now
              /\ wifi.last_fix = now
              /\ wifi.altitude = altitude
              /\ wifi.mode = IF altitude # NaN THEN 3 ELSE 2

\* update_wifi has succeeded over four positions without altitude whose
\* median lies between two of them, and the cache gave the elevation.
C10_Witness ==
    /\ done.op = "update_wifi"
    /\ Cardinality(Matched(done.arg)) = 4
    /\ ~BoxOver50(Matched(done.arg))
    /\ \A b \in Matched(done.arg) : wifi_positions[b].altitude = NaN
    /\ HasDevice(positions, "wifi")
    /\ Pos(positions, "wifi").mode = 3
    /\ \A b \in Matched(done.arg) :
           wifi_positions[b].latitude # Pos(positions, "wifi").latitude

-----------------------------------------------------------------------------
\* The plugin GPSD_ng: configuration with the import of the position files,
\* and the AP-list event.

\* A .gps.json or .geo.json file of the handshake directory, for the AP
\* whose BSSID is in its name (a file without "Device" has NoDevice).
PositionFile(bssid, device, latitude, longitude, altitude) ==
    [bssid |-> bssid, Device |-> device, Latitude |-> latitude,
     Longitude |-> longitude, Altitude |-> altitude]

\* GPSD_ng.read_position_files, from files[i].
RECURSIVE read_position_files(_, _, _)
read_position_files(store, files, i) ==
    IF i > Len(files) THEN store
    ELSE IF files[i].Device = "wifi"
    THEN read_position_files(store, files, i + 1)
    ELSE read_position_files(
             update_wifi_positions(store, files[i].bssid, files[i].Latitude,
                                   files[i].Longitude, files[i].Altitude),
             files, i + 1)

\* GPSD_ng.on_config_changed: GPSD.configure, the import of the position
\* files and the start of the thread.
OnConfigChanged(main, ftimeout, utimeout, elevations, wifi, positioning, files) ==
    /\ ~configured
    /\ configured' = TRUE
    /\ main_device' = main
    /\ fix_timeout' = ftimeout
    /\ update_timeout' = IF utimeout < ftimeout THEN ftimeout ELSE utimeout
    /\ elevation_data' = elevations
    /\ wifi_positioning' = positioning
    /\ wifi_positions' = IF positioning
                         THEN read_position_files(wifi, files, 1)
                         ELSE wifi_positions
    /\ worker' = "loop"
    /\ done' = Done("on_config_changed", [wifi |-> wifi, files |-> files],
                    Void)
    /\ UNCHANGED <<now, positions, last_position, last_clean, last_elevation,
                   session, connection_errors, exit, last_hook,
                   lost_position_sent, emitted, held, outside, steps>>

\* GPSD_ng.update_wifi_positions(aps, coords) without the test of the
\* device.
GPSD_ng_update_wifi_positions_any(store, aps, coords) ==
    LET one(b) == update_wifi_positions(store, b, coords.latitude,
                                        coords.longitude, coords.altitude)
    IN  [b \in DOMAIN store \cup UNION {DOMAIN one(a) : a \in aps} |->
            IF b \in aps THEN one(b)[b] ELSE store[b]]

\* GPSD_ng.update_wifi_positions(aps, coords): every AP of the list gets
\* the coordinates of coords.
GPSD_ng_update_wifi_positions(store, aps, coords) ==
    IF coords.device = "wifi" THEN store
    ELSE LET one(b) == update_wifi_positions(store, b, coords.latitude,
                                             coords.longitude, coords.altitude)
         IN  [b \in DOMAIN store \cup UNION {DOMAIN one(a) : a \in aps} |->
                 IF b \in aps THEN one(b)[b] ELSE store[b]]

\* GPSD_ng.on_unfiltered_ap_list, for the BSSIDs of the AP list.
OnUnfilteredApList(aps) ==
    /\ configured
    /\ last_position' = get_position(positions, last_position, configured,
                                     main_device, fix_timeout, now)
    /\ \E learnt \in {IF last_position'.kind # "none" /\ wifi_positioning
                      THEN GPSD_ng_update_wifi_positions(
                               wifi_positions, aps,
                               Deref(last_position', positions))
                      ELSE wifi_positions} :
           /\ wifi_positions' = learnt
           /\ positions' = IF wifi_positioning
                           THEN update_wifi(positions, learnt, elevation_data,
                                            aps, now)
                           ELSE positions
    /\ done' = Done("on_unfiltered_ap_list", aps, last_position')
    /\ UNCHANGED <<now, configured, main_device, fix_timeout, update_timeout,
                   last_clean, elevation_data, last_elevation, others>>

-----------------------------------------------------------------------------
\* Specification SpecLearn: one receiver with 2D fixes at two places and the
\* loss of the fix, AP lists over four access points, position files
\* written from a receiver, from "wifi" and by another plugin.

LearnTicks == {10}
LearnBssids == {"ap1", "ap2", "ap3", "ap4"}
LearnReports == {Tpv2D("gps0", 4, 4), Tpv2D("gps0", 8, 4), TpvNoFix("gps0")}
LearnFiles ==
    {<<>>,
     <<PositionFile("ap1", "gps0", 4, 4, 30)>>,
     <<PositionFile("ap1", "wifi", 6, 6, NaN)>>,
     <<PositionFile("ap2", NoDevice, 8, 4, NaN),
       PositionFile("ap1", "wifi", 6, 6, NaN),
       PositionFile("ap2", "wifi", 6, 6, NaN)>>}

NextLearn ==
    \/ \E positioning \in BOOLEAN, files \in LearnFiles :
           OnConfigChanged(NoDevice, 120, 120, EmptyMap, EmptyMap,
                           positioning, files)
    \/ \E r \in LearnReports : Update(r)
    \/ \E aps \in SUBSET LearnBssids : OnUnfilteredApList(aps)
    \/ \E dt \in LearnTicks : now + dt <= MaxTime /\ Tick(dt)

SpecLearn == Init /\ [][NextLearn]_vars

\* The stored location of an AP is the coordinates of the Position p.
LearntFrom(entry, p) ==
    /\ entry.latitude = p.latitude
    /\ entry.longitude = p.longitude
    /\ entry.altitude = p.altitude

\* The stored location of an AP is the content of the file f.
ImportedFrom(entry, f) ==
    /\ entry.latitude = f.Latitude
    /\ entry.longitude = f.Longitude
    /\ entry.altitude = f.Altitude

\* C11: no circular learning. An AP-list event whose authoritative position
\* is the "wifi" device leaves the store as it is; every location that an
\* AP-list event writes is the coordinates of a Position that is not "wifi";
\* every location the store holds after the import comes from the saved
\* store or from a file whose Device is not "wifi".
C11_NoCircularLearning ==
    [][/\ done'.op = "on_unfiltered_ap_list" =>
              \A b \in DOMAIN wifi_positions' :
                  \/ /\ b \in DOMAIN wifi_positions
                     /\ wifi_positions'[b] = wifi_positions[b]
                  \/ /\ done'.result.kind # "none"
                     /\ Deref(done'.result, positions).device # "wifi"
                     /\ LearntFrom(wifi_positions'[b],
                                   Deref(done'.result, positions))
       /\ done'.op = "on_config_changed" =>
              \A b \in DOMAIN wifi_positions' :
                  \/ /\ b \in DOMAIN done'.arg.wifi
                     /\ wifi_positions'[b] = done'.arg.wifi[b]
                  \/ \E i \in 1..Len(done'.arg.files) :
                         /\ done'.arg.files[i].bssid = b
                         /\ done'.arg.files[i].Device # "wifi"
                         /\ ImportedFrom(wifi_positions'[b],
                                         done'.arg.files[i])
       /\ done'.op \notin {"on_unfiltered_ap_list", "on_config_changed"} =>
              wifi_positions' = wifi_positions]_vars

\* An AP-list event has come while the authoritative position is "wifi",
\* with an AP that has no stored location: it still has none.
C11_Witness ==
    /\ done.op = "on_unfiltered_ap_list"
    /\ wifi_positioning
    /\ done.result = Live("wifi")
    /\ \E b \in done.arg : b \notin DOMAIN wifi_positions

-----------------------------------------------------------------------------
\* End-to-end scenarios of update.

\* A TPV report with a 3D fix and every bit of a TPV set.
Full3D(r) ==
    /\ IsReport(r)
    /\ {"MODE_SET", "LATLON_SET", "SPEED_SET", "ALTITUDE_SET"} \subseteq r.valid
    /\ r.fix.mode = 3

\* C12: from an empty table and an empty elevation cache, once update has
\* applied a report with mode 3, latitude, longitude and altMSL and all
\* validity bits set, get_position returns the Position of that device with
\* the reported latitude, longitude and altitude, and the cache maps the
\* rounded key of (latitude, longitude) to the reported altMSL.
C12_First3DFixEndToEnd ==
    [][(/\ positions = <<>>
        /\ elevation_data = EmptyMap
        /\ done'.op = "update"
        /\ Full3D(done'.arg))
       => LET r == done'.arg
              returned == get_position(positions', last_position', configured',
                                       main_device', fix_timeout', now')
              key == <<round4(r.fix.latitude), round4(r.fix.longitude)>>
          IN  /\ returned = Live(r.device)
              /\ Deref(returned, positions').device = r.device
              /\ Deref(returned, positions').latitude = r.fix.latitude
              /\ Deref(returned, positions').longitude = r.fix.longitude
              /\ Deref(returned, positions').altitude = r.fix.altMSL
              /\ key \in DOMAIN elevation_data'
              /\ elevation_data'[key] = r.fix.altMSL]_vars

\* The first report of an engine is a full 3D report away from the origin
\* of its grid cell; the table holds its device and the cache its altitude.
C12_Witness ==
    /\ done.op = "update"
    /\ Full3D(done.arg)
    /\ Len(positions) = 1
    /\ positions[1].last_update = 0
    /\ done.arg.fix.latitude # round4(done.arg.fix.latitude)
    /\ DOMAIN elevation_data =
           {<<round4(done.arg.fix.latitude), round4(done.arg.fix.longitude)>>}

\* A TPV report with a 2D fix and no valid altitude.
Only2D(r) ==
    /\ IsReport(r)
    /\ {"MODE_SET", "LATLON_SET"} \subseteq r.valid
    /\ "ALTITUDE_SET" \notin r.valid
    /\ r.fix.mode = 2

\* C13: once update has applied a 2D fix without valid altitude, the
\* altitude of the device's Position is the elevation cached for the rounded
\* cell of the fix if there is one, and NaN if there is none.
C13_AltitudeFromCache ==
    [][(done'.op = "update" /\ Only2D(done'.arg))
       => LET r == done'.arg
              key == <<round4(r.fix.latitude), round4(r.fix.longitude)>>
              altitude == Pos(positions', r.device).altitude
          IN  /\ key \in DOMAIN elevation_data
                     => altitude = elevation_data[key]
              /\ key \notin DOMAIN elevation_data => altitude = NaN]_vars

\* A 2D fix has been applied in a cell whose elevation the backfill cached:
\* the Position has that altitude.
C13_Witness ==
    /\ done.op = "update"
    /\ Only2D(done.arg)
    /\ last_elevation = now
    /\ Pos(positions, done.arg.device).altitude = 40

-----------------------------------------------------------------------------
\* Cleanup

\* The last update of the Position is older than the update timeout.
UpdateOlder(p) == p.last_update # NoTime /\ now - p.last_update > update_timeout

\* C14: after a cleanup pass that ran (it was not skipped by the 10-second
\* rate limit) with a non-zero update timeout, the table holds no device
\* whose last update is older than the update timeout, and the key of each
\* such device is absent from the table; with an update timeout of zero,
\* cleanup removes no device.
C14_CleanRemovesOldDevices ==
    [][done'.op = "clean" =>
          /\ (update_timeout # 0 /\ last_clean' # last_clean) =>
                 /\ \A i \in 1..Len(positions') : ~UpdateOlder(positions'[i])
                 /\ \A i \in 1..Len(positions) :
                        UpdateOlder(positions[i]) =>
                            ~HasDevice(positions', positions[i].device)
          /\ update_timeout = 0 => positions' = positions]_vars

\* A cleanup pass has run and has deleted the Position that get_position
\* returned last.
C14_Witness ==
    /\ done.op = "clean"
    /\ last_clean = now
    /\ update_timeout # 0
    /\ last_position.kind = "detached"
    /\ ~HasDevice(positions, last_position.pos.device)

-----------------------------------------------------------------------------
\* The thread: GPSD.run, GPSD.loop, GPSD.plugin_hook, GPSD.join

RESTART_ERRORS == 3
HOOK_PERIOD == 10

\* What GPSD.clean makes of the table, of last_position and of last_clean.
clean(ps, lp, lclean, utimeout, t) ==
    IF utimeout = 0 \/ t - lclean < CLEAN_PERIOD
    THEN [positions |-> ps, last_position |-> lp, last_clean |-> lclean]
    ELSE LET KeepPosition(p) == ~is_update_old(p, utimeout, t)
             kept == SelectSeq(ps, KeepPosition)
         IN  [positions |-> kept, last_position |-> AfterDelete(lp, ps, kept),
              last_clean |-> t]

\* plugin_hook that does not remember that position_lost was sent.
plugin_hook_forgetful(ps, lp, lhook, sent, events, t) ==
    IF t - lhook < HOOK_PERIOD
    THEN [last_hook |-> lhook, last_position |-> lp,
          lost_position_sent |-> sent, emitted |-> events, event |-> "none"]
    ELSE LET coords == get_position(ps, lp, configured, main_device,
                                    fix_timeout, t)
         IN  IF coords.kind # "none"
             THEN [last_hook |-> t, last_position |-> coords,
                   lost_position_sent |-> FALSE,
                   emitted |-> [last |-> "position_available",
                                available |-> TRUE],
                   event |-> "position_available"]
             ELSE [last_hook |-> t, last_position |-> coords,
                   lost_position_sent |-> sent,
                   emitted |-> [events EXCEPT !.last = "position_lost"],
                   event |-> "position_lost"]

\* GPSD.plugin_hook: the new last_hook, last_position, lost_position_sent,
\* what has been emitted so far, and the event of this call.
plugin_hook(ps, lp, lhook, sent, events, t) ==
    IF t - lhook < HOOK_PERIOD
    THEN [last_hook |-> lhook, last_position |-> lp,
          lost_position_sent |-> sent, emitted |-> events, event |-> "none"]
    ELSE LET coords == get_position(ps, lp, configured, main_device,
                                    fix_timeout, t)
         IN  IF coords.kind # "none"
             THEN [last_hook |-> t, last_position |-> coords,
                   lost_position_sent |-> FALSE,
                   emitted |-> [last |-> "position_available",
                                available |-> TRUE],
                   event |-> "position_available"]
             ELSE IF ~sent
             THEN [last_hook |-> t, last_position |-> coords,
                   lost_position_sent |-> TRUE,
                   emitted |-> [events EXCEPT !.last = "position_lost"],
                   event |-> "position_lost"]
             ELSE [last_hook |-> t, last_position |-> coords,
                   lost_position_sent |-> sent, emitted |-> events,
                   event |-> "none"]

\* What a cycle of the loop did: whether it called connect, whether it
\* failed (connect failed, or no report was read), whether it called
\* restart_gpsd, the event of plugin_hook, whether an exception ended the
\* loop.
Cycle(connect, failed, restart, event, raised) ==
    [connect |-> connect, failed |-> failed, restart |-> restart,
     event |-> event, raised |-> raised]

\* What the session gives in a cycle: a report (waiting() and read() == 0),
\* nothing within 2 s (waiting() is false), a read error (read() != 0), or
\* a ConnectionError raised by the socket.
ReadReport(r) == [kind |-> "report", report |-> r]
ReadTimeout == [kind |-> "timeout", report |-> Void]
ReadError == [kind |-> "error", report |-> Void]
ReadConnectionError == [kind |-> "ConnectionError", report |-> Void]

\* One iteration of the while loop of GPSD.loop. connect_ok is the outcome
\* of connect() if it is called, read what the session gives.
\*   - When connect() fails, self.session is None and self.session.waiting
\*     raises AttributeError, which the loop does not catch: run() logs it
\*     and the thread ends.
\*   - A ConnectionError is caught by the loop: restart_gpsd, the counter is
\*     reset, the session stays, plugin_hook is not called.
LoopCycle(connect_ok, read) ==
    /\ worker = "loop"
    /\ ~exit
    /\ \E c \in {clean(positions, last_position, last_clean, update_timeout,
                       now)} :
       LET connect == ~session
       IN  /\ last_clean' = c.last_clean
           /\ IF connect /\ ~connect_ok
              THEN /\ worker' = "crashed"
                   /\ session' = FALSE
                   /\ connection_errors' = connection_errors + 1
                   /\ positions' = c.positions
                   /\ last_position' = c.last_position
                   /\ done' = Done("loop", read,
                                   Cycle(TRUE, TRUE, FALSE, "none", TRUE))
                   /\ UNCHANGED <<elevation_data, last_hook,
                                  lost_position_sent, emitted>>
              ELSE IF read.kind = "ConnectionError"
              THEN /\ session' = TRUE
                   /\ connection_errors' = 0
                   /\ positions' = c.positions
                   /\ last_position' = c.last_position
                   /\ done' = Done("loop", read,
                                   Cycle(connect, TRUE, TRUE, "none", FALSE))
                   /\ UNCHANGED <<worker, elevation_data, last_hook,
                                  lost_position_sent, emitted>>
              ELSE LET ok == read.kind = "report"
                       applied == ok /\ IsReport(read.report)
                       ps == IF applied
                             THEN update_positions(c.positions, elevation_data,
                                                   read.report, now)
                             ELSE c.positions
                       errors == IF ok THEN 0 ELSE connection_errors + 1
                       restart == errors >= RESTART_ERRORS
                   IN  /\ session' = ok
                       /\ connection_errors' = IF restart THEN 0 ELSE errors
                       /\ positions' = ps
                       /\ elevation_data' =
                              IF applied
                              THEN update_elevations(elevation_data,
                                                     read.report)
                              ELSE elevation_data
                       /\ \E h \in {plugin_hook(ps, c.last_position, last_hook,
                                                lost_position_sent, emitted,
                                                now)} :
                              /\ last_hook' = h.last_hook
                              /\ last_position' = h.last_position
                              /\ lost_position_sent' = h.lost_position_sent
                              /\ emitted' = h.emitted
                              /\ done' = Done("loop", read,
                                              Cycle(connect, ~ok, restart,
                                                    h.event, FALSE))
                       /\ UNCHANGED worker
    /\ UNCHANGED <<now, configured, main_device, fix_timeout, update_timeout,
                   last_elevation, wifi_positions, wifi_positioning, exit,
                   held, outside, steps>>

\* The while loop ends: the stop signal is set.
LoopExit ==
    /\ worker = "loop"
    /\ exit
    /\ worker' = "ended"
    /\ done' = Done("loop_exit", Void, Void)
    /\ UNCHANGED <<now, configured, main_device, fix_timeout, update_timeout,
                   positions, last_position, last_clean, elevation_data,
                   last_elevation, wifi_positions, wifi_positioning, session,
                   connection_errors, exit, last_hook, lost_position_sent,
                   emitted, held, outside, steps>>

\* GPSD.join sets the stop signal.
Join ==
    /\ ~exit
    /\ exit' = TRUE
    /\ done' = Done("join", Void, Void)
    /\ UNCHANGED <<now, configured, main_device, fix_timeout, update_timeout,
                   positions, last_position, last_clean, elevation_data,
                   last_elevation, wifi_positions, wifi_positioning, worker,
                   session, connection_errors, last_hook, lost_position_sent,
                   emitted, held, outside, steps>>

-----------------------------------------------------------------------------
\* Specification SpecLoop: the thread against a gpsd that accepts or refuses
\* the connection, sends reports with and without fix, stays silent, fails.

LoopTicks == {10}
LoopReads ==
    {ReadReport(Tpv2D("gps0", 4, 4)), ReadReport(TpvNoFix("gps0")),
     ReadTimeout, ReadError, ReadConnectionError}

NextLoop ==
    \/ OnConfigChanged(NoDevice, 10, 10, EmptyMap, EmptyMap, FALSE, <<>>)
    \/ \E connect_ok \in BOOLEAN, read \in LoopReads :
           LoopCycle(connect_ok, read)
    \/ LoopExit
    \/ Join
    \/ \E dt \in LoopTicks : now + dt <= MaxTime /\ Tick(dt)

SpecLoop == Init /\ [][NextLoop]_vars

\* C15: whatever the connect failures, read failures, read timeouts and
\* connection errors, the thread does not leave its loop before the stop
\* signal is set.
C15_LoopUntilStop == worker \in {"crashed", "ended"} => exit

\* C16: restart_gpsd is called in a cycle when, and only when, the cycle is
\* the third failed cycle in a row; the counter is 0 right after
\* restart_gpsd and after every cycle that read a report.
C16_RestartAfterThreeFailures ==
    [][done'.op = "loop" =>
          /\ done'.result.restart <=>
                 (done'.result.failed
                  /\ connection_errors = RESTART_ERRORS - 1)
          /\ done'.result.restart => connection_errors' = 0
          /\ ~done'.result.failed => connection_errors' = 0]_vars

\* C17: a connect attempt that follows a failed cycle comes 1 s or more
\* after it (the delay is 1 s after the first failure and doubles up to
\* 30 s).
C17_BackoffBeforeConnect ==
    [][(/\ done.op = "loop"
        /\ done.result.failed
        /\ done'.op = "loop"
        /\ done'.result.connect)
       => now' - now >= 1]_vars

\* C18: position_lost is not repeated: it is never emitted when the last
\* event emitted was position_lost.
C18_PositionLostOnce ==
    [][(done'.op = "loop" /\ done'.result.event = "position_lost")
       => emitted.last # "position_lost"]_vars

\* plugin_hook has run without a position after position_lost was emitted,
\* and has emitted nothing.
C18_Witness ==
    /\ done.op = "loop"
    /\ last_hook = now
    /\ done.result.event = "none"
    /\ emitted.last = "position_lost"
    /\ lost_position_sent

\* C19: every position_lost comes after a position_available: an engine that
\* never had a position emits no position_lost.
C19_PositionLostAfterAvailable ==
    emitted.last = "position_lost" => emitted.available

-----------------------------------------------------------------------------
\* A caller of get_position and what it is handed.

\* The caller holds the reference that get_position returned; snapshot is
\* what the fields of the Position were at the time of the call.
Held(ref, snapshot) == [kind |-> "held", ref |-> ref, snapshot |-> snapshot]

\* get_position called by the UI, a web handler or an event handler, which
\* keeps what it was handed.
CallerGetPosition ==
    /\ last_position' = get_position(positions, last_position, configured,
                                     main_device, fix_timeout, now)
    /\ held' = IF last_position'.kind = "none" THEN NoHeld
               ELSE Held(last_position', Deref(last_position', positions))
    /\ done' = Done("get_position", Void, last_position')
    /\ UNCHANGED <<now, configured, main_device, fix_timeout, update_timeout,
                   positions, last_clean, elevation_data, last_elevation,
                   wifi_positions, wifi_positioning, worker, session,
                   connection_errors, exit, last_hook, lost_position_sent,
                   emitted, outside, steps>>

\* Specification SpecSnap: a caller takes the position while one receiver
\* reports fixes at two places and loses the fix, and the Wi-Fi position is
\* computed. Nothing is deleted from the table (update_timeout is 0).

SnapTicks == {10}
SnapReports == {Tpv2D("gps0", 4, 4), Tpv2D("gps0", 8, 4), TpvNoFix("gps0")}

NextSnap ==
    \/ Configure(NoDevice, 0, 0, EmptyMap, ArbStore)
    \/ \E r \in SnapReports : Update(r)
    \/ UpdateWifi(ArbBssids)
    \/ Clean
    \/ CallerGetPosition
    \/ \E dt \in SnapTicks : now + dt <= MaxTime /\ Tick(dt)

SpecSnap == Init /\ [][NextSnap]_vars

\* C20: a Position handed to a caller by get_position is a snapshot: no
\* later update, loss-of-fix reset, update_wifi or cleanup changes a field
\* of what was returned.
C20_ReturnedIsSnapshot ==
    held.kind = "held" => Deref(held.ref, positions) = held.snapshot

-----------------------------------------------------------------------------
\* The threads, statement by statement. A method is the set of its paths,
\* each path the sequence of what it does to GPSD.lock and to the shared
\* objects: it acquires or releases the lock (`with self.lock:`; a return
\* inside the block releases it), reads or writes an object, calls a method.

Acquire == [t |-> "acquire", x |-> "lock"]
Release == [t |-> "release", x |-> "lock"]
Write(x) == [t |-> "write", x |-> x]
ReadOf(x) == [t |-> "read", x |-> x]
Call(f) == [t |-> "call", x |-> f]

\* get_position holding the lock for its whole read-modify sequence.
get_position_code_locked ==
    {<<Acquire, Call("get_position_device"), ReadOf("positions"),
       Write("last_position"), Release>>}

\* GPSD.get_position: get_position_device, then self.positions[device] and
\* self.last_position outside the lock.
get_position_code ==
    {<<Call("get_position_device"), ReadOf("positions"),
       Write("last_position")>>}

code(f) ==
    CASE f = "connect" -> {<<Acquire, Write("session"), Release>>}
      [] f = "close" -> {<<Write("session")>>}
      [] f = "update" ->
            {<<Acquire, ReadOf("session"), Release>>,
             <<Acquire, Write("positions"), Call("cache_elevation"),
               Write("positions"), Write("session"), Release>>,
             <<Acquire, Write("positions"), Call("get_elevation"),
               Write("positions"), Write("session"), Release>>}
      [] f = "clean" -> {<<>>, <<Acquire, Write("positions"), Release>>}
      [] f = "update_wifi_positions" -> {<<>>, <<Write("wifi_positions")>>}
      [] f = "update_wifi" ->
            {<<ReadOf("wifi_positions")>>,
             <<ReadOf("wifi_positions"), Acquire, Write("positions"),
               Release>>,
             <<ReadOf("wifi_positions"), Call("get_elevation"), Acquire,
               Write("positions"), Release>>}
      [] f = "plugin_hook" ->
            {<<>>, <<Call("get_position")>>,
             <<Call("get_position"), ReadOf("positions")>>}
      [] f = "get_position_device" ->
            {<<>>, <<Acquire, ReadOf("positions"), Release>>}
      [] f = "get_position" -> get_position_code
      [] f = "cache_elevation" ->
            {<<ReadOf("elevation_data")>>,
             <<ReadOf("elevation_data"), Write("elevation_data")>>}
      [] f = "get_elevation" -> {<<ReadOf("elevation_data")>>}
      [] f = "calculate_locations" ->
            {<<Call("get_position")>>,
             <<Call("get_position"), ReadOf("positions"),
               ReadOf("elevation_data")>>}
      [] f = "update_cache_elevation" ->
            {<<>>, <<Call("calculate_locations")>>,
             <<Call("calculate_locations"), Acquire, Call("cache_elevation"),
               ReadOf("elevation_data"), Release>>}
      [] f = "on_internet_available" ->
            {<<Call("update_cache_elevation"), Call("get_position")>>,
             <<Call("get_position")>>}
      [] f = "on_unfiltered_ap_list" ->
            {<<Call("get_position"), Call("update_wifi")>>,
             <<Call("get_position"), ReadOf("positions"),
               Call("update_wifi_positions"), ReadOf("wifi_positions"),
               Call("update_wifi")>>}
      [] f = "on_handshake" ->
            {<<Call("get_position")>>,
             <<Call("get_position"), ReadOf("positions")>>}
      [] f = "on_webhook" ->
            {<<Call("get_position_device"), Call("get_position"),
               ReadOf("positions"), ReadOf("positions"),
               ReadOf("elevation_data")>>}

\* The calls in progress without those that have nothing left to execute.
RECURSIVE Unwound(_)
Unwound(stack) ==
    IF stack # <<>> /\ Head(stack) = <<>> THEN Unwound(Tail(stack))
    ELSE stack

\* The thread calls f and takes one of its paths.
Calls(th, f) ==
    \E path \in code(f) :
        frames' = [frames EXCEPT ![th] = Unwound(<<path>> \o frames[th])]

\* The thread executes the next statement of its innermost call. A thread
\* that acquires the lock waits until it is free: threading.Lock is not
\* reentrant.
Step(th) ==
    /\ frames[th] # <<>>
    /\ LET top == Head(frames[th])
           statement == Head(top)
           after == <<Tail(top)>> \o Tail(frames[th])
       IN  CASE statement.t = "acquire" ->
                    /\ lock = "free"
                    /\ lock' = th
                    /\ frames' = [frames EXCEPT ![th] = Unwound(after)]
             [] statement.t = "release" ->
                    /\ lock' = "free"
                    /\ frames' = [frames EXCEPT ![th] = Unwound(after)]
             [] statement.t = "call" ->
                    /\ \E path \in code(statement.x) :
                           frames' = [frames EXCEPT ![th] =
                                         Unwound(<<path>> \o after)]
                    /\ UNCHANGED lock
             [] OTHER ->
                    /\ frames' = [frames EXCEPT ![th] = Unwound(after)]
                    /\ UNCHANGED lock
    /\ done' = Done("step", th, Void)
    /\ UNCHANGED <<now, configured, main_device, fix_timeout, update_timeout,
                   positions, last_position, last_clean, elevation_data,
                   last_elevation, wifi_positions, wifi_positioning, worker,
                   session, connection_errors, exit, last_hook,
                   lost_position_sent, emitted, held, outside, raw, at>>

\* A callback of the plugin or a web handler begins in the caller's thread.
CallerCalls(f) ==
    /\ worker # "new"
    /\ frames["caller"] = <<>>
    /\ Calls("caller", f)
    /\ done' = Done("call", f, Void)
    /\ UNCHANGED <<now, configured, main_device, fix_timeout, update_timeout,
                   positions, last_position, last_clean, elevation_data,
                   last_elevation, wifi_positions, wifi_positioning, worker,
                   session, connection_errors, exit, last_hook,
                   lost_position_sent, emitted, held, outside, raw, lock, at>>

\* How subprocess.run(..., check=True, timeout=...) ends: the command exits
\* with 0, exits with another status (CalledProcessError), does not end in
\* time (TimeoutExpired), cannot be started (FileNotFoundError).
SubprocessOutcomes ==
    {"ok", "CalledProcessError", "TimeoutExpired", "FileNotFoundError"}

\* restart_gpsd catches CalledProcessError only.
restart_gpsd(outcome) ==
    IF outcome \in {"ok", "CalledProcessError"} THEN Return(Void)
    ELSE Raise(outcome)

\* reload_or_restart_gpsd: killall -SIGHUP, and restart_gpsd when it exits
\* with a status that is not 0.
reload_or_restart_gpsd(reload, restart) ==
    IF reload = "ok" THEN Return(Void)
    ELSE IF reload = "CalledProcessError" THEN restart_gpsd(restart)
    ELSE Raise(reload)

\* The commands a recovery runs, in order. reload_or_restart_gpsd runs
\* killall -SIGHUP and goes on to systemctl restart after CalledProcessError
\* only; restart_gpsd, which the loop calls, runs systemctl restart alone.
recovery_commands(op, outcomes) ==
    IF op = "restart_gpsd" THEN <<"restart">>
    ELSE IF outcomes[1] = "CalledProcessError" THEN <<"reload", "restart">>
    ELSE <<"reload">>

\* reload_or_restart_gpsd called by on_bluetooth_up or by the web handler.
CallerReloads(reload, restart) ==
    /\ worker # "new"
    /\ frames["caller"] = <<>>
    /\ done' = Done("reload_or_restart_gpsd", <<reload, restart>>,
                    reload_or_restart_gpsd(reload, restart))
    /\ UNCHANGED <<now, configured, main_device, fix_timeout, update_timeout,
                   positions, last_position, last_clean, elevation_data,
                   last_elevation, wifi_positions, wifi_positioning, worker,
                   session, connection_errors, exit, last_hook,
                   lost_position_sent, emitted, held, outside, steps>>

\* GPSD.run up to the loop: reload_or_restart_gpsd is outside the try, an
\* exception that leaves it ends the thread.
RunStep(reload, restart) ==
    /\ worker = "loop"
    /\ at = "run"
    /\ \E result \in {reload_or_restart_gpsd(reload, restart)} :
           /\ done' = Done("reload_or_restart_gpsd", <<reload, restart>>,
                           result)
           /\ IF result.kind = "raise"
              THEN worker' = "crashed" /\ UNCHANGED at
              ELSE at' = "while" /\ UNCHANGED worker
    /\ UNCHANGED <<now, configured, main_device, fix_timeout, update_timeout,
                   positions, last_position, last_clean, elevation_data,
                   last_elevation, wifi_positions, wifi_positioning, session,
                   connection_errors, exit, last_hook, lost_position_sent,
                   emitted, held, outside, raw, lock, frames>>

\* The while loop that never ends.
loop_continues_forever(stop) == TRUE

\* while not self.exit.is_set()
loop_continues(stop) == ~stop

\* GPSD.loop, from one call of a method to the next. connect_ok is the
\* outcome of connect(), read what the session gives (a report, nothing
\* within the 2 s of waiting(), a read error, a ConnectionError), restart
\* how the subprocess of restart_gpsd ends.
LoopStep(connect_ok, read, restart) ==
    /\ worker = "loop"
    /\ at # "run"
    /\ frames["worker"] = <<>>
    /\ CASE at = "while" ->
                IF loop_continues(exit)
                THEN /\ Calls("worker", "clean")
                     /\ at' = "connect"
                     /\ done' = Done("loop", at, Void)
                     /\ UNCHANGED <<worker, session, connection_errors>>
                ELSE /\ worker' = "ended"
                     /\ done' = Done("loop", at, Void)
                     /\ UNCHANGED <<at, frames, session, connection_errors>>
         [] at = "connect" ->
                IF session
                THEN /\ at' = "waiting"
                     /\ done' = Done("loop", at, Void)
                     /\ UNCHANGED <<worker, frames, session,
                                    connection_errors>>
                ELSE /\ Calls("worker", "connect")
                     /\ session' = connect_ok
                     /\ connection_errors' =
                            IF connect_ok THEN connection_errors
                            ELSE connection_errors + 1
                     /\ at' = "waiting"
                     /\ done' = Done("loop", at, Void)
                     /\ UNCHANGED worker
         [] at = "waiting" ->
                IF ~session
                THEN /\ worker' = "crashed"
                     /\ done' = Done("loop", at, Raise("AttributeError"))
                     /\ UNCHANGED <<at, frames, session, connection_errors>>
                ELSE IF read = "report"
                THEN /\ Calls("worker", "update")
                     /\ connection_errors' = 0
                     /\ at' = "errors"
                     /\ done' = Done("loop", at, Void)
                     /\ UNCHANGED <<worker, session>>
                ELSE IF read = "ConnectionError"
                THEN /\ at' = "except"
                     /\ done' = Done("loop", at, Void)
                     /\ UNCHANGED <<worker, frames, session,
                                    connection_errors>>
                ELSE /\ Calls("worker", "close")
                     /\ session' = FALSE
                     /\ connection_errors' = connection_errors + 1
                     /\ at' = "errors"
                     /\ done' = Done("loop", at, Void)
                     /\ UNCHANGED worker
         [] at = "errors" ->
                IF connection_errors >= RESTART_ERRORS
                THEN /\ at' = "restart"
                     /\ done' = Done("loop", at, Void)
                     /\ UNCHANGED <<worker, frames, session,
                                    connection_errors>>
                ELSE /\ Calls("worker", "plugin_hook")
                     /\ at' = "while"
                     /\ done' = Done("loop", at, Void)
                     /\ UNCHANGED <<worker, session, connection_errors>>
         [] at = "restart" ->
                \E result \in {restart_gpsd(restart)} :
                    /\ done' = Done("restart_gpsd", restart, result)
                    /\ IF result.kind = "raise"
                       THEN /\ worker' = "crashed"
                            /\ UNCHANGED <<at, frames, session,
                                           connection_errors>>
                       ELSE /\ connection_errors' = 0
                            /\ Calls("worker", "plugin_hook")
                            /\ at' = "while"
                            /\ UNCHANGED <<worker, session>>
         [] at = "except" ->
                \E result \in {restart_gpsd(restart)} :
                    /\ done' = Done("restart_gpsd", restart, result)
                    /\ IF result.kind = "raise"
                       THEN /\ worker' = "crashed"
                            /\ UNCHANGED <<at, frames, session,
                                           connection_errors>>
                       ELSE /\ connection_errors' = 0
                            /\ at' = "while"
                            /\ UNCHANGED <<worker, frames, session>>
    /\ UNCHANGED <<now, configured, main_device, fix_timeout, update_timeout,
                   positions, last_position, last_clean, elevation_data,
                   last_elevation, wifi_positions, wifi_positioning, exit,
                   last_hook, lost_position_sent, emitted, held, outside, raw, lock>>

-----------------------------------------------------------------------------
\* Specification SpecThreads: the thread of GPSD.run and one caller's thread
\* interleave statement by statement; gpsd accepts or refuses connections,
\* sends reports, stays silent, fails; the subprocesses end in every way.
\* SpecThreadsFair: every thread that can run does run in the end, and the
\* worker gets the lock in the end if it is free again and again.

WorkerNext ==
    \/ \E reload, restart \in SubprocessOutcomes : RunStep(reload, restart)
    \/ \E connect_ok \in BOOLEAN,
          read \in {"report", "timeout", "error", "ConnectionError"},
          restart \in SubprocessOutcomes :
           LoopStep(connect_ok, read, restart)
    \/ Step("worker")

NextThreads ==
    \/ OnConfigChanged(NoDevice, 10, 10, EmptyMap, EmptyMap, FALSE, <<>>)
    \/ WorkerNext
    \/ \E f \in {"on_internet_available", "on_unfiltered_ap_list",
                 "on_handshake", "on_webhook"} : CallerCalls(f)
    \/ Step("caller")
    \/ \E reload, restart \in SubprocessOutcomes :
           CallerReloads(reload, restart)
    \/ worker # "new" /\ Join

SpecThreads == Init /\ [][NextThreads]_vars

SpecThreadsFair ==
    SpecThreads /\ SF_vars(WorkerNext) /\ WF_vars(Step("caller"))

\* The statement a thread executes next, when it is in a call.
Pending(th) ==
    IF frames[th] = <<>> THEN [t |-> "none", x |-> "none"]
    ELSE Head(Head(frames[th]))

\* The shared state of the engine.
SharedState == {"positions", "elevation_data", "wifi_positions", "session"}

\* C21 as stated: a thread that writes the Position table or its Positions,
\* the elevation cache, the wifi-position store or the connection handle
\* holds the lock, and no two threads are at the same time in a write and
\* in a write or a read of the same of these objects.
C21_WritesUnderLock ==
    /\ \A th \in Threads :
           (Pending(th).t = "write" /\ Pending(th).x \in SharedState) =>
               lock = th
    /\ \A t1, t2 \in Threads :
           (/\ t1 # t2
            /\ Pending(t1).t = "write"
            /\ Pending(t1).x \in SharedState
            /\ Pending(t2).t \in {"read", "write"})
               => Pending(t2).x # Pending(t1).x

\* C22: once the stop signal is set, the thread of GPSD.run ends, wherever
\* it was in run or in the loop.
C22_StopEndsThread == exit ~> (worker \in {"ended", "crashed"})

\* The stop signal is set and the thread has left its loop by the test of
\* the while.
C22_Witness == exit /\ worker = "ended" /\ at = "while"

\* C23 as stated: however the subprocess of reload_or_restart_gpsd or
\* restart_gpsd ends, the call returns to its caller and the thread of
\* GPSD.run goes on.
C23_SubprocessFailureAbsorbed ==
    [][done'.op \in {"reload_or_restart_gpsd", "restart_gpsd"} =>
          /\ done'.result.kind = "return"
          /\ worker' = worker]_vars

\* C25: no thread acquires the lock while it holds it.
C25_NoNestedLocking ==
    \A th \in Threads : Pending(th).t = "acquire" => lock # th

\* A thread holds the lock inside a call made under the lock (update calls
\* cache_elevation, update_cache_elevation calls cache_elevation), and the
\* other thread waits for the lock.
C25_Witness ==
    \E th \in Threads :
        /\ lock = th
        /\ Len(frames[th]) >= 2
        /\ Pending(th).x = "elevation_data"
        /\ \E other \in Threads \ {th} : Pending(other).t = "acquire"

-----------------------------------------------------------------------------
\* Claims about the fix timestamp, satellite reports, the cache writes of
\* update and the loss of the fix (SpecUpd).

\* The report carries a valid mode, and it is a fix / it is not.
FixReport(r) == "MODE_SET" \in r.valid /\ r.fix.mode >= 2
NoFixReport(r) == "MODE_SET" \in r.valid /\ r.fix.mode < 2

\* C26: an applied report sets the device's last_fix to the time of
\* processing when it carries a valid mode >= 2, and leaves last_fix as it
\* was otherwise (valid mode < 2, no valid mode, satellites only).
C26_LastFixIffFixReport ==
    [][Applied =>
          LET r == done'.arg
              old == OldPosition(r.device)
              new == NewPositionOf(r.device)
          IN  IF FixReport(r)
              THEN new.last_fix = now'
              ELSE new.last_fix = old.last_fix]_vars

\* At time 20 a no-fix report has been applied to a device whose last fix,
\* of time 10, is still its last fix.
C26_Witness ==
    /\ done.op = "update"
    /\ IsReport(done.arg)
    /\ NoFixReport(done.arg)
    /\ now = 20
    /\ \E i \in 1..Len(positions) :
           /\ positions[i].device = done.arg.device
           /\ positions[i].last_fix = 10
           /\ positions[i].last_update = 10

\* The report carries satellites and no mode, lat/lon or altitude.
SatellitesOnly(r) ==
    /\ "SATELLITE_SET" \in r.valid
    /\ r.valid \cap {"MODE_SET", "LATLON_SET", "ALTITUDE_SET"} = {}

\* C28 as stated: an applied satellites-only report replaces the satellite
\* list, refreshes last_update and leaves latitude, longitude, altitude,
\* speed, mode and last_fix unchanged.
C28_SatellitesOnlyKeepsFix ==
    [][(Applied /\ SatellitesOnly(done'.arg)) =>
          LET r == done'.arg
              old == OldPosition(r.device)
              new == NewPositionOf(r.device)
          IN  /\ new.satellites = r.satellites
              /\ new.last_update = now'
              /\ \A f \in {"latitude", "longitude", "altitude", "speed",
                           "mode", "last_fix"} : new[f] = old[f]]_vars

\* C29 as stated: update adds a key to the elevation cache only from a report
\* that is a 3D fix with a valid altitude and finite latitude and longitude,
\* and every key of the cache is built from finite coordinates.
C29_CacheOnlyFrom3DFix ==
    [][(done'.op = "update" /\ elevation_data' # elevation_data) =>
          LET r == done'.arg
          IN  /\ "MODE_SET" \in r.valid /\ r.fix.mode = 3
              /\ "ALTITUDE_SET" \in r.valid
              /\ isfinite(r.fix.latitude) /\ isfinite(r.fix.longitude)
              /\ \A key \in DOMAIN elevation_data' :
                     isfinite(key[1]) /\ isfinite(key[2])]_vars

\* The device has a fix less than 10 seconds old.
InGrace(old) == old.last_fix # NoTime /\ now - old.last_fix < 10

\* No Position becomes valid except the one of the device of an applied
\* report that carries a valid mode >= 2.
ValidOnlyByFix ==
    \A i \in 1..Len(positions') :
        LET new == positions'[i]
            old == OldPosition(new.device)
        IN  (~is_valid(old) /\ is_valid(new)) =>
                (Applied /\ done'.arg.device = new.device
                    /\ FixReport(done'.arg))

C36_ReportRefreshesLastUpdate ==
    [][(/\ Applied
        /\ \/ FixReport(done'.arg)
           \/ NoFixReport(done'.arg)
           \/ "SATELLITE_SET" \in done'.arg.valid)
          => NewPositionOf(done'.arg.device).last_update = now']_vars

-----------------------------------------------------------------------------
\* Claim about a failed elevation request (SpecElev).

\* update_cache_elevation is past its guards in this step and sends the
\* request: the engine is configured, the last attempt is more than 60
\* seconds old and calculate_locations returns points.
RequestSent ==
    /\ done'.op = "update_cache_elevation"
    /\ configured
    /\ now - last_elevation > ELEVATION_PERIOD
    /\ LET locations == calculate_locations(positions, last_position',
                                            elevation_data, MAX_DIST)
       IN  locations.kind = "return" /\ locations.value # <<>>

\* The request fails, or its answer is not of the expected form.
RequestFailed(response) == response.error \/ ~response.results

\* C24 as stated: when the batched request fails (error, timeout, status,
\* malformed body), update_cache_elevation leaves the elevation cache (and
\* so its snapshot, which is saved from it) unchanged and returns without
\* raising.
C24_FailedRequestIsNoOp ==
    [][(RequestSent /\ RequestFailed(done'.arg)) =>
          /\ elevation_data' = elevation_data
          /\ done'.result.kind = "return"]_vars

-----------------------------------------------------------------------------
\* Specification SpecRaw: two receivers behind one session. gps0 sends 3D
\* fixes at (4, 4) with altitude 30 and speed 8, gps1 sends 2D fixes at
\* (3, 3), in the same cell of the elevation grid, and loses its fix; both
\* send satellites; gpsd sends messages that are no report.

RawMessages ==
    {Report({"ONLINE_SET", "MODE_SET", "LATLON_SET", "SPEED_SET",
             "ALTITUDE_SET"}, "gps0", Fix(3, 4, 4, 8, 30), <<>>),
     Sky("gps0", <<[PRN |-> 1, used |-> TRUE]>>),
     Tpv2D("gps1", 3, 3), TpvNoFix("gps1"),
     Sky("gps1", <<[PRN |-> 2, used |-> FALSE]>>),
     Report({"ONLINE_SET"}, NoDevice, Fix(0, NaN, NaN, NaN, NaN), <<>>)}

NextRaw ==
    \/ Configure(NoDevice, 120, 120, EmptyMap, EmptyMap)
    \/ \E msg \in RawMessages : ReadUpdate(msg)
    \/ \E dt \in UpdTicks : now + dt <= MaxTime /\ Tick(dt)

SpecRaw == Init /\ [][NextRaw]_vars

\* The messages of a device, and the values they carry.
MessagesOf(d) == {msg \in RawMessages : msg.device = d}

CarriedBy(d) ==
    UNION {{msg.fix.latitude, msg.fix.longitude, msg.fix.speed,
            msg.fix.altMSL} : msg \in MessagesOf(d)}

CarriedByOthers(d) ==
    UNION {CarriedBy(e) : e \in {msg.device : msg \in RawMessages} \ {d}}
        \ (CarriedBy(d) \cup {NaN})

SatellitesOfOthers(d) ==
    {msg.satellites : msg \in RawMessages \ MessagesOf(d)} \ {<<>>}

\* update has consumed a report in this step: the buffer is reset, and the
\* Position of every other device is what it was.
ResetAndFrame ==
    (done'.op = "update" /\ IsReport(done'.arg)) =>
        /\ raw' = EmptyBuffer
        /\ \A i \in 1..Len(positions) :
               positions[i].device # done'.arg.device =>
                   /\ i <= Len(positions')
                   /\ positions'[i] = positions[i]

\* C27 as stated: after update has consumed a report the buffer is reset,
\* the report changes no field of another device's Position, and no
\* Position ever holds a value that only reports of other devices carry.
C27_NoLeakBetweenDevices ==
    [][/\ ResetAndFrame
       /\ \A i \in 1..Len(positions') :
              LET p == positions'[i]
              IN  /\ {p.latitude, p.longitude, p.speed, p.altitude}
                         \cap CarriedByOthers(p.device) = {}
                  /\ p.satellites \notin SatellitesOfOthers(p.device)]_vars

\* C27 amended: the same for the reset, the frame, and for latitude,
\* longitude, speed and satellites. The altitude of a device whose report
\* carries no valid altitude is the elevation cached for the rounded
\* coordinates of that report, which can be an altitude that a report of
\* another device carried into the cache.
C27_NoLeakButCachedElevation ==
    [][/\ ResetAndFrame
       /\ \A i \in 1..Len(positions') :
              LET p == positions'[i]
              IN  /\ {p.latitude, p.longitude, p.speed}
                         \cap CarriedByOthers(p.device) = {}
                  /\ p.satellites \notin SatellitesOfOthers(p.device)
       /\ (done'.op = "update" /\ IsReport(done'.arg)) =>
              LET msg == done'.result
                  p == NewPositionOf(msg.device)
                  key == <<round4(msg.fix.latitude),
                           round4(msg.fix.longitude)>>
              IN  p.altitude =
                      IF "ALTITUDE_SET" \in msg.valid THEN msg.fix.altMSL
                      ELSE IF key \in DOMAIN elevation_data
                      THEN elevation_data[key]
                      ELSE NaN]_vars

\* A satellite message of gps1 has been consumed after a 3D fix of gps0 and
\* a 2D fix of gps1: both Positions are in the table, gps0's with its own
\* fix, and the buffer is reset.
C27_Witness ==
    /\ done.op = "update"
    /\ done.arg.device = "gps1"
    /\ "SATELLITE_SET" \in done.arg.valid
    /\ raw = EmptyBuffer
    /\ Len(positions) = 2
    /\ \E i, j \in 1..Len(positions) :
           /\ positions[i].device = "gps0"
           /\ positions[i].latitude = 4
           /\ positions[i].altitude = 30
           /\ positions[j].device = "gps1"
           /\ positions[j].latitude = 3
           /\ positions[j].satellites = done.arg.satellites

-----------------------------------------------------------------------------
\* Claims about the last-known position and the "wifi" Position (SpecArb).

\* C31 as stated: what get_position returns, when it returns a Position, has
\* finite latitude and longitude, the last-known position returned while no
\* device is valid included.
C31_ResultHasFiniteCoordinates ==
    (Returned /\ done.result.kind # "none") =>
        /\ Finite(Deref(done.result, positions).latitude)
        /\ Finite(Deref(done.result, positions).longitude)

\* C38 as stated: get_position does not return the "wifi" Position while a
\* device of the table that is not the "wifi" Position is valid.
C38_WifiOnlyWithoutRealFix ==
    (ReturnedDevice /\ Pos(positions, done.result.device).dummy) =>
        \A i \in UsableIndexes : positions[i].dummy

-----------------------------------------------------------------------------
\* Claims about the session and the end of the thread (SpecLoop).

\* C32 as stated: a cycle whose read gives nothing within the timeout,
\* returns an error or raises a ConnectionError leaves the session closed
\* and cleared, and the cycle after it calls connect.
C32_FailedReadClosesSession ==
    [][/\ (/\ done'.op = "loop"
           /\ done'.arg.kind \in {"timeout", "error", "ConnectionError"}
           /\ ~done'.result.raised)
          => ~session'
       /\ (/\ done.op = "loop"
           /\ done.arg.kind \in {"timeout", "error", "ConnectionError"}
           /\ ~done.result.raised
           /\ done'.op = "loop")
          => done'.result.connect]_vars

\* C34 as stated: once the thread has left its loop because of the stop
\* signal, the session is closed and cleared.
C34_ClosedAfterStop == (worker = "ended" /\ exit) => ~session

-----------------------------------------------------------------------------
\* Claims about the recovery (SpecThreads).

\* C33 as stated: every recovery (at the start of the thread, after
\* RESTART_ERRORS failed cycles, after a ConnectionError, on a Bluetooth or
\* web request) runs the reload first, and runs the restart after it when,
\* and only when, the reload failed or timed out.
C33_ReloadBeforeRestart ==
    [][done'.op \in {"reload_or_restart_gpsd", "restart_gpsd"} =>
          LET commands == recovery_commands(done'.op, done'.arg)
          IN  /\ commands[1] = "reload"
              /\ (Len(commands) = 2) <=> (done'.arg[1] # "ok")]_vars

-----------------------------------------------------------------------------
\* Specification SpecRate: the backfill of the elevation cache is asked for
\* again and again, 29 to 61 seconds after the last time, before and after
\* the configuration, with and without a 2D fix, while the service answers
\* or fails.

MaxRateTime == 125

RateTicks == {29, 31, 61}
RateReports == {Tpv2D("gps0", 4, 4), Tpv3D("gps0", 4, 4, 30)}

NextRate ==
    \/ Configure(NoDevice, 0, 0, EmptyMap, EmptyMap)
    \/ \E r \in RateReports : Update(r)
    \/ \E response \in ElevResponses : UpdateCacheElevation(response)
    \/ \E dt \in RateTicks : now + dt <= MaxRateTime /\ Tick(dt)

SpecRate == Init /\ [][NextRate]_vars

\* The requests to the elevation service are at least 60 seconds apart.
RequestsApart ==
    \A i \in 1..Len(requests) - 1 :
        requests[i + 1] - requests[i] >= ELEVATION_PERIOD

\* C35: two requests to the elevation service are never less than 60
\* seconds apart, also after a request that failed; and a request is sent
\* only by a configured engine for which calculate_locations returns points.
C35_RequestsRateLimited ==
    /\ []RequestsApart
    /\ [][requests' # requests =>
             /\ configured
             /\ LET locations == calculate_locations(
                        positions, last_position', elevation_data, MAX_DIST)
                IN  locations.kind = "return" /\ locations.value # <<>>]_vars

\* Two requests have been sent, the second after the first had failed and
\* the backfill had been asked for in between, less than 60 seconds after
\* the first.
C35_Witness ==
    /\ Len(requests) = 2
    /\ done.op = "update_cache_elevation"
    /\ elevation_data = EmptyMap
    /\ now = last_elevation
    /\ requests[2] = now
    /\ requests[2] - requests[1] > ELEVATION_PERIOD + 10

-----------------------------------------------------------------------------
\* Specification SpecSilent: two receivers deliver reports of every kind at
\* time 0 and are silent from then on; the update timeout is 10 seconds;
\* time passes and the thread goes on calling clean.

SilentDevices == {"gps0", "gps1"}
SilentReports ==
    UNION {{Tpv3D(d, 4, 4, 30), Tpv2D(d, 4, 4), TpvNoFix(d),
            Sky(d, <<[PRN |-> 1, used |-> TRUE]>>)} : d \in SilentDevices}

SilentTick == \E dt \in {10} : now + dt <= MaxTime /\ Tick(dt)

NextSilent ==
    \/ Configure(NoDevice, 10, 10, EmptyMap, EmptyMap)
    \/ \E r \in SilentReports : now = 0 /\ Update(r)
    \/ Clean
    \/ SilentTick

SpecSilent == Init /\ [][NextSilent]_vars

\* Time passes, and a pass of clean that has something to do is done.
SpecSilentFair == SpecSilent /\ WF_vars(SilentTick) /\ WF_vars(Clean)

\* C37 as stated: with an update timeout that is not 0 and the thread
\* running, a device of the table that gets no further report is removed
\* by clean in the end, whatever the report that created it.
C37_SilentDeviceRemoved ==
    \A d \in SilentDevices :
        (HasDevice(positions, d) /\ now > 0) ~> ~HasDevice(positions, d)

-----------------------------------------------------------------------------
\* The NTRIP selector (src/ntrip-selector.py). gpsdctl add / remove end
\* like every subprocess.run(..., check=True, timeout=10): with status 0,
\* with another status (CalledProcessError, which the two methods catch) or
\* by the timeout (TimeoutExpired, which they do not catch). What a method
\* makes of current_url and of the URLs registered with gpsd, and the
\* exception that leaves it.

NTRIP_PERIOD == 60

NtripState(current_url, registered, raised) ==
    [current_url |-> current_url, urls |-> registered, raised |-> raised]

\* Ntrip.set_ntrip_server. subprocess.run refuses None in its arguments
\* with a TypeError.
set_ntrip_server(url, current_url, registered, outcome) ==
    IF url = NoUrl THEN NtripState(current_url, registered, "TypeError")
    ELSE IF outcome = "ok"
    THEN NtripState(url, registered \cup {url}, "none")
    ELSE NtripState(current_url, registered,
                    IF outcome = "CalledProcessError" THEN "none" ELSE outcome)

\* Ntrip.unset_ntrip_server
unset_ntrip_server(current_url, registered, outcome) ==
    IF current_url = NoUrl THEN NtripState(NoUrl, registered, "none")
    ELSE IF outcome = "ok"
    THEN NtripState(NoUrl, registered \ {current_url}, "none")
    ELSE NtripState(current_url, registered,
                    IF outcome = "CalledProcessError" THEN "none" ELSE outcome)

\* Ntrip.select_ntrip_server, closest being the URL of the closest stream
\* within MAX_DIST of the position, if there is one.
select_ntrip_server(position_iset, closest) ==
    IF ~position_iset THEN NoUrl ELSE closest

\* Ntrip.on_config_changed
NtripOnConfigChanged ==
    /\ ~ntrip.ready
    /\ ntrip' = [ntrip EXCEPT !.ready = TRUE]
    /\ done' = Done("ntrip_on_config_changed", Void, Void)
    /\ UNCHANGED <<now, configured, main_device, fix_timeout, update_timeout,
                   positions, last_position, last_clean, elevation_data,
                   last_elevation, wifi_positions, wifi_positioning, worker,
                   session, connection_errors, exit, last_hook,
                   lost_position_sent, emitted, held, requests, daemon, steps>>

\* Ntrip.on_position_available (available) and Ntrip.on_position_lost.
NtripOnPosition(available) ==
    /\ ntrip' = [ntrip EXCEPT !.position_iset = available]
    /\ done' = Done("ntrip_on_position", available, Void)
    /\ UNCHANGED <<now, configured, main_device, fix_timeout, update_timeout,
                   positions, last_position, last_clean, elevation_data,
                   last_elevation, wifi_positions, wifi_positioning, worker,
                   session, connection_errors, exit, last_hook,
                   lost_position_sent, emitted, held, requests, daemon, steps>>

\* gpsd is restarted: another pid, no URL registered.
DaemonRestart ==
    /\ daemon' = [pid |-> 3 - daemon.pid, urls |-> {}]
    /\ done' = Done("daemon_restart", Void, Void)
    /\ UNCHANGED <<now, configured, main_device, fix_timeout, update_timeout,
                   positions, last_position, last_clean, elevation_data,
                   last_elevation, wifi_positions, wifi_positioning, worker,
                   session, connection_errors, exit, last_hook,
                   lost_position_sent, emitted, held, requests, ntrip, steps>>

\* Ntrip.on_ui_update, with the closest URL and the outcomes of gpsdctl
\* remove and gpsdctl add if they are run. The result is "skipped" when the
\* plugin is not ready or the last pass is less than 60 seconds old, and
\* otherwise the exception that leaves the pass, or "none".
NtripOnUiUpdate(closest, remove, add) ==
    /\ IF ~ntrip.ready \/ now - ntrip.last_update < NTRIP_PERIOD
       THEN /\ UNCHANGED <<ntrip, daemon>>
            /\ done' = Done("ntrip_on_ui_update", <<closest, remove, add>>,
                            "skipped")
       ELSE \E after \in
                {IF daemon.pid # ntrip.gpsd_pid
                 THEN set_ntrip_server(ntrip.current_url, ntrip.current_url,
                                       daemon.urls, add)
                 ELSE LET new_url == select_ntrip_server(ntrip.position_iset,
                                                         closest)
                          unset == unset_ntrip_server(ntrip.current_url,
                                                      daemon.urls, remove)
                      IN  IF new_url = ntrip.current_url
                          THEN NtripState(ntrip.current_url, daemon.urls,
                                          "none")
                          ELSE IF unset.raised # "none" THEN unset
                          ELSE set_ntrip_server(new_url, unset.current_url,
                                                unset.urls, add)} :
                /\ ntrip' = [ntrip EXCEPT !.last_update = now,
                                          !.gpsd_pid = daemon.pid,
                                          !.current_url = after.current_url]
                /\ daemon' = [daemon EXCEPT !.urls = after.urls]
                /\ done' = Done("ntrip_on_ui_update",
                                <<closest, remove, add>>, after.raised)
    /\ UNCHANGED <<now, configured, main_device, fix_timeout, update_timeout,
                   positions, last_position, last_clean, elevation_data,
                   last_elevation, wifi_positions, wifi_positioning, worker,
                   session, connection_errors, exit, last_hook,
                   lost_position_sent, emitted, held, requests, steps>>

-----------------------------------------------------------------------------
\* Specification SpecNtrip: two servers, of which the one or the other or
\* none is the closest; the position is lost and found; gpsd is restarted;
\* gpsdctl succeeds, fails or does not end in time; a pass every 30 seconds.

MaxNtripTime == 180

NtripUrls == {"ntrip://a", "ntrip://b"}
GpsdctlOutcomes == {"ok", "CalledProcessError", "TimeoutExpired"}

NextNtrip ==
    \/ NtripOnConfigChanged
    \/ \E available \in BOOLEAN : NtripOnPosition(available)
    \/ DaemonRestart
    \/ \E closest \in NtripUrls \cup {NoUrl}, remove, add \in GpsdctlOutcomes :
           NtripOnUiUpdate(closest, remove, add)
    \/ \E dt \in {30} : now + dt <= MaxNtripTime /\ Tick(dt)

SpecNtrip == Init /\ [][NextNtrip]_vars

\* C39 as stated: after a pass of on_ui_update, at most one URL is
\* registered with gpsd, and current_url is that URL, or None when no URL
\* is registered.
C39_OneUrlRegistered ==
    (done.op = "ntrip_on_ui_update" /\ done.result # "skipped") =>
        /\ Cardinality(daemon.urls) <= 1
        /\ daemon.urls =
               IF ntrip.current_url = NoUrl THEN {} ELSE {ntrip.current_url}

=============================================================================
